---- MODULE Spec2Model ----
(***************************************************************************)
(* A model of the data-refresh pipeline of the WoW guild bot:              *)
(*   - RaiderIOClient::execute_request_with_retry   (src/src/raider_io.rs) *)
(*   - the fetch schedulers of generate_members_data (src/src/parser.rs)   *)
(*     and fetch_all_guild_data                  (src/src/guild_data.rs)   *)
(*   - the staging/active/backup member tables     (src/src/database.rs)   *)
(*   - sort_guilds and parse_progression         (src/src/guild_data.rs)   *)
(* Each component has its own specification over the shared variables.     *)
(***************************************************************************)
EXTENDS Integers, Sequences, FiniteSets, TLC

VARIABLES
    \* ---- one call of execute_request_with_retry ----
    rq_pc,        \* "idle" | "send" | "sleep" | "done"
    attempt,      \* the loop variable `attempt` of `for attempt in 0..=max_retries`
    sent,         \* requests sent by this call
    n429,         \* answers with status 429 received by this call
    n5xx,         \* answers with a 5xx status received by this call
    nNet,         \* requests that could not be sent (reqwest error)
    rq_result,    \* what the call returned
    last_error,   \* the local `last_error`
    rq_files,     \* calls of save_error_details made by this call
    rq_slept,     \* backoff waits of this call, in milliseconds each
    rq_last,      \* history: the answer to the latest request of this call
    \* ---- one run of a fetch scheduler (stream::iter(..).buffer_unordered(n)) ----
    sched_kind,            \* "player": generate_members_data, "guild": fetch_all_guild_data
    total_jobs,            \* total_players / total_guilds
    concurrent_requests,   \* config.rate_limiting.concurrent_requests
    job_pc,                \* per job: "none" | "queued" | "delay" | "call" | "done"
    attempts,              \* per job: the local `attempts` of the player future
    final_players,         \* the records taken off the player stream, in completion order
    results,               \* the Vec collected from the guild stream, in completion order
    job_requests,          \* history, per player job: requests sent by its client calls
    job_files,             \* history, per player job: artifacts its client calls wrote
    \* ---- the member tables (database.rs) and the refresh cycle that writes them ----
    db,           \* the committed tables members, members_tmp, members_old
    tx_open,      \* swap_members_tables holds an open transaction
    tx_pc,        \* statements the latest swap_members_tables call has executed
    tx_db,        \* the tables as the open transaction sees them
    cycle_pc,     \* generate_members_data: "idle" | "writing" | "swapping" | "done"
                  \*   | "clear_failed" | "swap_failed"
    cycles,       \* refresh cycles started so far
    writes,       \* insert_temp_member calls of the current cycle
    written,      \* history: the records the current cycle stored in staging, in order
    cycle_pre,    \* history: the active rows when the current cycle started
    stale,        \* history: the staging rows the current cycle found, and how
                  \* the cycle before it had ended
    swap_pre,     \* history: the active rows when the current swap began
    swap_staged,  \* history: the staging rows when the current swap began
    observed,     \* what the latest read of the active table returned
    \* ---- one call of sort_guilds (guild_data.rs) ----
    guilds_in,    \* the Vec<GuildData> passed to sort_guilds
    sorted,       \* the Vec<GuildData> it returned
    sort_pc,      \* "input" | "sorted"
    \* ---- one run of generate_members_data (parser.rs) ----
    players,      \* the keys of data_dict: the (realm, name) of each player job
    \* ---- one call of fetch_guild_data or fetch_player_data (raider_io.rs) ----
    fetch_kind,     \* "guild" | "player"
    fetch_pc,       \* "idle" | "profile" | "boss" | "next_boss" | "done"
    fetch_result,   \* what the call returned
    fetch_files,    \* failure artifacts this call has written to logs/errors
    fetch_profile,  \* history: what the profile request of this call returned
    fetch_body,     \* history: the body of a 2xx answer to the profile request
    sink_ok,        \* logs/errors can be created and written during this call
    fetch_asked,    \* the identity the fetch was called for
    fetch_identity, \* the identity the returned record carries, "" without one
    fetch_progress, \* the summary of the raid in the parsed guild profile
    fetch_percent,  \* best_percent of the returned guild record, in eighths
    \* ---- two runs of generate_members_data on one database ----
    oc_pc,          \* per run: "idle" | "writing" | "done"
    oc_written,     \* per run: the records it has stored in staging, in order
    oc_swapper,     \* the run whose swap committed last, "" before any swap
    \* ---- the consumer loop of generate_members_data, by its counts ----
    bt_pc,          \* "poll" | "write" | "ended"
    bt_total,       \* total_players
    bt_len,         \* final_players.len()
    bt_written,     \* players_written
    bt_log,         \* history: the batches written, each the first and last index
    \* ---- the roster loop of generate_members_data ----
    rosters,        \* what fetch_guild_members answers for each guild, in order
    roster_i,       \* the number of guilds processed
    data_dict,      \* HashMap<(realm, name), PlayerData>, by the guild it holds
    roster_jobs     \* the fetch jobs built from data_dict, <<>> before

retryVars == <<rq_pc, attempt, sent, n429, n5xx, nNet, rq_result, last_error,
               rq_files, rq_slept, rq_last>>

schedVars == <<sched_kind, total_jobs, concurrent_requests, job_pc, attempts,
               final_players, results, job_requests, job_files>>

storeVars == <<db, tx_open, tx_pc, tx_db, cycle_pc, cycles, writes, written, cycle_pre, stale,
               swap_pre, swap_staged, observed>>

sortVars == <<guilds_in, sorted, sort_pc>>

refreshVars == <<players>>

fetchVars == <<fetch_kind, fetch_pc, fetch_result, fetch_files, fetch_profile, fetch_body,
              sink_ok, fetch_asked, fetch_identity, fetch_progress, fetch_percent>>

overlapVars == <<oc_pc, oc_written, oc_swapper>>

batchVars == <<bt_pc, bt_total, bt_len, bt_written, bt_log>>

rosterVars == <<rosters, roster_i, data_dict, roster_jobs>>

vars == <<retryVars, schedVars, storeVars, sortVars, refreshVars, fetchVars,
          overlapVars, batchVars, rosterVars>>

\* what the actions of one component leave alone
notRetryVars == <<schedVars, storeVars, sortVars, refreshVars, fetchVars,
                 overlapVars, batchVars, rosterVars>>
notSchedVars == <<retryVars, storeVars, sortVars, refreshVars, fetchVars,
                 overlapVars, batchVars, rosterVars>>
notStoreVars == <<retryVars, schedVars, sortVars, refreshVars, fetchVars,
                 overlapVars, batchVars, rosterVars>>
notSortVars == <<retryVars, schedVars, storeVars, refreshVars, fetchVars,
                 overlapVars, batchVars, rosterVars>>

(***************************************************************************)
(* RaiderIOClient: retry policy                                            *)
(***************************************************************************)

\* from_config: max_retries: 10
max_retries == 10

\* from_config: base_delay_ms: 10000
base_delay_ms == 10000

\* The answers the remote service can give to one request.  sent_ok = FALSE is
\* the Err(e) arm of `.send().await` (connect failure, timeout): no status.
Statuses == {200, 404, 422, 429, 500, 503}

Responses ==
    {[sent_ok |-> TRUE, status |-> s] : s \in Statuses}
        \cup {[sent_ok |-> FALSE, status |-> 0]}

\* every status from 400 up is retried
is_error_status(status) == status >= 400

\* StatusCode::is_server_error
is_server_error(status) == status >= 500 /\ status <= 599

\* StatusCode::is_success
is_success(status) == status >= 200 /\ status <= 299

NoResult == [tag |-> "none", status |-> 0, error |-> ""]
OkResponse(status) == [tag |-> "Ok", status |-> status, error |-> ""]
ErrResult(error, status) == [tag |-> "Err", status |-> status, error |-> error]

NoResponse == [sent_ok |-> FALSE, status |-> -1]

\* the error is taken from `last_error`, which only the network arm sets
ExhaustedErrorFromLastError(r, last) ==
    IF last = "Http" \/ ~r.sent_ok THEN ErrResult("Http", 0)
    ELSE IF r.status = 429 THEN ErrResult("RateLimit", 0)
    ELSE ErrResult("RaiderIo", r.status)

\* the error of the `else` branch of each arm, built from the answer r to the
\* last attempt: BotError::rate_limit(..), BotError::raider_io(status, ..),
\* BotError::Http(e)
ExhaustedError(r, last) ==
    IF ~r.sent_ok THEN ErrResult("Http", 0)
    ELSE IF r.status = 429 THEN ErrResult("RateLimit", 0)
    ELSE ErrResult("RaiderIo", r.status)

\* each cause is counted on its own: a retry follows while no cause has
\* failed max_retries times
MayRetryPerCause(a) ==
    n429 < max_retries /\ n5xx < max_retries /\ nNet < max_retries

\* `attempt < self.max_retries`: another attempt follows a failed one
MayRetryOffByOne(a) == a + 1 < max_retries

MayRetry(a) == a < max_retries

\* the wait doubles with every attempt
RetryDelayExponential(r) == base_delay_ms * 2^attempt

\* the progress loops `for i in 1..=10 { sleep(1s) }` of the 429 and 5xx arms
\* wait ten seconds; the network arm waits base_delay_ms
RetryDelay(r) ==
    IF r.sent_ok THEN 10 * 1000 ELSE base_delay_ms

\* let response = ... execute_request_with_retry(&url): the caller starts a call
ExecuteRequestCall ==
    /\ rq_pc = "idle"
    /\ rq_pc' = "send"
    /\ attempt' = 0
    /\ sent' = 0
    /\ n429' = 0
    /\ n5xx' = 0
    /\ nNet' = 0
    /\ rq_result' = NoResult
    /\ last_error' = ""
    /\ rq_files' = 0
    /\ rq_slept' = <<>>
    /\ rq_last' = NoResponse
    /\ UNCHANGED notRetryVars

\* one iteration of the loop body: the request is sent and its answer handled
ExecuteRequestSend(r) ==
    /\ rq_pc = "send"
    /\ sent' = sent + 1
    /\ rq_last' = r
    /\ n429' = IF r.sent_ok /\ r.status = 429 THEN n429 + 1 ELSE n429
    /\ n5xx' = IF r.sent_ok /\ is_server_error(r.status) THEN n5xx + 1 ELSE n5xx
    /\ nNet' = IF r.sent_ok THEN nNet ELSE nNet + 1
    /\ IF r.sent_ok /\ r.status # 429 /\ ~is_server_error(r.status)
       THEN \* return Ok(response)
            /\ rq_pc' = "done"
            /\ rq_result' = OkResponse(r.status)
            /\ UNCHANGED <<attempt, last_error, rq_files, rq_slept>>
       ELSE IF MayRetry(attempt)
       THEN \* wait, then `continue`
            /\ rq_pc' = "sleep"
            /\ rq_slept' = Append(rq_slept, RetryDelay(r))
            /\ last_error' = IF r.sent_ok THEN last_error ELSE "Http"
            /\ UNCHANGED <<attempt, rq_result, rq_files>>
       ELSE \* save_error_details(...); return Err(error)
            /\ rq_pc' = "done"
            /\ rq_files' = rq_files + 1
            /\ rq_result' = ExhaustedError(r, last_error)
            /\ UNCHANGED <<attempt, last_error, rq_slept>>
    /\ UNCHANGED notRetryVars

\* the backoff wait is over: `continue` takes the next value of `attempt`
ExecuteRequestWake ==
    /\ rq_pc = "sleep"
    /\ rq_pc' = "send"
    /\ attempt' = attempt + 1
    /\ UNCHANGED <<sent, n429, n5xx, nNet, rq_result, last_error, rq_files, rq_slept,
                   rq_last>>
    /\ UNCHANGED notRetryVars

RetryIdle ==
    /\ rq_pc = "idle"
    /\ attempt = 0
    /\ sent = 0
    /\ n429 = 0
    /\ n5xx = 0
    /\ nNet = 0
    /\ rq_result = NoResult
    /\ last_error = ""
    /\ rq_files = 0
    /\ rq_slept = <<>>
    /\ rq_last = NoResponse

RetryNext ==
    \/ ExecuteRequestCall
    \/ \E r \in Responses : ExecuteRequestSend(r)
    \/ ExecuteRequestWake

(***************************************************************************)
(* C1: a call of execute_request_with_retry that is answered 429 on every  *)
(* attempt ends with a rate-limit error after exactly max_retries requests.*)
(* This is the claim as stated; the loop `0..=max_retries` sends one more. *)
(***************************************************************************)
C1_AsStated ==
    (rq_pc = "done" /\ n429 = sent) =>
        (rq_result.tag = "Err" /\ rq_result.error = "RateLimit" /\ sent = max_retries)

\* C1 (amended): answered 429 on every attempt, the call ends with a
\* rate-limit error after exactly max_retries + 1 requests (the first attempt
\* and max_retries retries), and is still running before that.
C1_RetryBound ==
    /\ (rq_pc = "done" /\ n429 = sent) =>
          (rq_result.tag = "Err" /\ rq_result.error = "RateLimit"
             /\ sent = max_retries + 1)
    /\ (rq_pc \in {"send", "sleep"} /\ n429 = sent) => sent <= max_retries

C1_Witness ==
    rq_pc = "done" /\ sent > 0 /\ n429 = sent /\ rq_result.error = "RateLimit"

(***************************************************************************)
(* Concurrent fetch scheduler                                              *)
(*   generate_members_data: stream::iter(players).buffer_unordered(5),     *)
(*     each future: wait 100 ms (i > 0), then loop { fetch_player_data }   *)
(*   fetch_all_guild_data: stream::iter(guild_urls)                        *)
(*     .buffer_unordered(config.rate_limiting.concurrent_requests)         *)
(* buffer_unordered pulls the next future off the iterator, in list order, *)
(* whenever fewer than n are in flight; a future's output leaves the       *)
(* stream in the poll in which the future completes.                       *)
(***************************************************************************)

\* jobs of a run are numbered 1..total_jobs in list order (the index i + 1)
MaxJobs == 2

\* largest configured value of rate_limiting.concurrent_requests explored
MaxConcurrent == 2

Jobs == 1..MaxJobs

\* parser.rs: .buffer_unordered(5)
player_buffer == 5

\* parser.rs: let max_attempts = 10
max_attempts == 10

\* what one call of fetch_player_data / fetch_guild_data returns:
\*   "Data"      Ok(Some(record))
\*   "NotFound"  Ok(None)                                   (HTTP 404)
\*   "RateLimit" Err(BotError::RateLimit)   (429 after the client's retries)
\*   "Server"    Err(BotError::RaiderIo 5xx) (5xx after the client's retries)
\*   "Other"     Err(..): network failure, other 4xx, unreadable body
ClientOutcomes == {"Data", "NotFound", "RateLimit", "Server", "Other"}

\* the n of buffer_unordered(n)
BufferSize(kind) ==
    IF kind = "player" THEN player_buffer ELSE concurrent_requests

InFlight == {j \in Jobs : job_pc[j] \in {"delay", "call"}}

\* error_msg.contains("429") || contains("rate") || contains("limit"), or
\* contains("500") || contains("502") || contains("503"), on the Display text
\* of the error (error.rs): RateLimit and RaiderIo{5xx} match, the others not
IsRetryableMessage(outcome) == outcome \in {"RateLimit", "Server"}

\* a retryable message is retried whatever the number of attempts
MayTryAgainUnbounded(outcome, n) == IsRetryableMessage(outcome)

\* attempts += 1; if (is_rate_limit || is_server_error) && attempts < max_attempts:
\* n is the number of attempts before this one
MayTryAgain(outcome, n) == IsRetryableMessage(outcome) /\ n + 1 < max_attempts

\* what one call of fetch_player_data costs, by what it returns: the requests
\* it sent and the artifacts it wrote (logs/errors writable).  A call that
\* exhausts its retries sends max_retries + 1 requests and writes one
\* artifact.  Every other call is taken to be answered on its first request:
\* a record or a 404 (no artifact), a 4xx status or a body that does not parse
\* (one artifact), a body that cannot be read (none)
CallsOf(outcome) ==
    IF outcome \in {"Data", "NotFound"}
    THEN {[requests |-> 1, files |-> 0]}
    ELSE IF outcome \in {"RateLimit", "Server"}
    THEN {[requests |-> max_retries + 1, files |-> 1]}
    ELSE {[requests |-> 1, files |-> 0], [requests |-> 1, files |-> 1],
          [requests |-> max_retries + 1, files |-> 1]}

PlayerRecord(j, outcome) ==
    [job |-> j, success |-> (outcome = "Data"), cause |-> outcome]

\* results.into_iter().flatten().collect()
FlattenKeepNone(rs) == rs

flatten(rs) == SelectSeq(rs, LAMBDA r : r.some)

\* let guilds: Vec<GuildData> = results.into_iter().flatten().collect()
guilds == flatten(results)

\* the stream polls the iterator: the next job in list order gets a slot
Dispatch(j) ==
    /\ job_pc[j] = "queued"
    /\ \A k \in Jobs : k < j => job_pc[k] # "queued"
    /\ Cardinality(InFlight) < BufferSize(sched_kind)
    /\ job_pc' = [job_pc EXCEPT ![j] =
                    IF sched_kind = "player" /\ j > 1 THEN "delay" ELSE "call"]
    /\ UNCHANGED <<sched_kind, total_jobs, concurrent_requests, attempts,
                   final_players, results, job_requests, job_files>>
    /\ UNCHANGED notSchedVars

\* if i > 0 { sleep(100 ms) } is over
PlayerDelayOver(j) ==
    /\ sched_kind = "player"
    /\ job_pc[j] = "delay"
    /\ job_pc' = [job_pc EXCEPT ![j] = "call"]
    /\ UNCHANGED <<sched_kind, total_jobs, concurrent_requests, attempts,
                   final_players, results, job_requests, job_files>>
    /\ UNCHANGED notSchedVars

\* client.fetch_player_data(..) returns inside the future's loop; the future
\* either waits ten seconds and calls again, or returns Some((record, ..)),
\* which `results.next()` hands to the consumer: final_players.push(player)
PlayerFetchReturns(j, outcome) ==
    /\ sched_kind = "player"
    /\ job_pc[j] = "call"
    /\ \E c \in CallsOf(outcome) :
          /\ job_requests' = [job_requests EXCEPT ![j] = @ + c.requests]
          /\ job_files' = [job_files EXCEPT ![j] = @ + c.files]
    /\ IF outcome \in {"Data", "NotFound"}
       THEN /\ job_pc' = [job_pc EXCEPT ![j] = "done"]
            /\ final_players' = Append(final_players, PlayerRecord(j, outcome))
            /\ UNCHANGED attempts
       ELSE IF MayTryAgain(outcome, attempts[j])
       THEN /\ attempts' = [attempts EXCEPT ![j] = @ + 1]
            /\ UNCHANGED <<job_pc, final_players>>
       ELSE /\ attempts' = [attempts EXCEPT ![j] = @ + 1]
            /\ job_pc' = [job_pc EXCEPT ![j] = "done"]
            /\ final_players' = Append(final_players, PlayerRecord(j, outcome))
    /\ UNCHANGED <<sched_kind, total_jobs, concurrent_requests, results>>
    /\ UNCHANGED notSchedVars

\* client.fetch_guild_data(&url, tier) returns: Some(guild) or None is the
\* future's output, collected into `results`
GuildFetchReturns(j, outcome) ==
    /\ sched_kind = "guild"
    /\ job_pc[j] = "call"
    /\ job_pc' = [job_pc EXCEPT ![j] = "done"]
    /\ results' = Append(results, [job |-> j, some |-> (outcome = "Data")])
    /\ UNCHANGED <<sched_kind, total_jobs, concurrent_requests, attempts,
                   final_players, job_requests, job_files>>
    /\ UNCHANGED notSchedVars

SchedIdle ==
    /\ sched_kind = "none"
    /\ total_jobs = 0
    /\ concurrent_requests = 1
    /\ job_pc = [j \in Jobs |-> "none"]
    /\ attempts = [j \in Jobs |-> 0]
    /\ final_players = <<>>
    /\ results = <<>>
    /\ job_requests = [j \in Jobs |-> 0]
    /\ job_files = [j \in Jobs |-> 0]

\* a run starts with its job list built and nothing dispatched
SchedInit ==
    /\ sched_kind \in {"player", "guild"}
    /\ total_jobs \in 0..MaxJobs
    /\ concurrent_requests \in 1..MaxConcurrent
    /\ job_pc = [j \in Jobs |-> IF j <= total_jobs THEN "queued" ELSE "none"]
    /\ attempts = [j \in Jobs |-> 0]
    /\ final_players = <<>>
    /\ results = <<>>
    /\ job_requests = [j \in Jobs |-> 0]
    /\ job_files = [j \in Jobs |-> 0]

SchedNext ==
    \/ \E j \in Jobs : Dispatch(j)
    \/ \E j \in Jobs : PlayerDelayOver(j)
    \/ \E j \in Jobs, o \in ClientOutcomes : PlayerFetchReturns(j, o)
    \/ \E j \in Jobs, o \in ClientOutcomes : GuildFetchReturns(j, o)

\* the stream is exhausted: every submitted job has completed
SchedDone == \A j \in Jobs : job_pc[j] \in {"none", "done"}

\* the collection a run hands on: final_players, or the returned Vec<GuildData>
Completed == IF sched_kind = "player" THEN final_players ELSE guilds

JobsOf(recs) == {recs[i].job : i \in 1..Len(recs)}

(***************************************************************************)
(* C2: when a scheduler run is over, the completed collection holds one    *)
(* record per submitted job, for player runs and guild runs alike.         *)
(* fetch_all_guild_data breaks it: a guild job that ends in not-found or   *)
(* in an error yields None, and `flatten` drops it from the result.        *)
(***************************************************************************)
C2_AsStated ==
    SchedDone => Len(Completed) = total_jobs

\* What the two schedulers do keep: a player run ends with exactly one record
\* per job in final_players; a guild run collects exactly one entry per job in
\* `results` and returns in `guilds` exactly one record per job that returned
\* data, no record for a job that ended in not-found or in an error.
C2_OneRecordPerJob ==
    /\ Len(final_players) = Cardinality(JobsOf(final_players))
    /\ Len(results) = Cardinality(JobsOf(results))
    /\ SchedDone =>
         /\ sched_kind = "player" =>
              /\ Len(final_players) = total_jobs
              /\ JobsOf(final_players) = 1..total_jobs
         /\ sched_kind = "guild" =>
              /\ Len(results) = total_jobs
              /\ JobsOf(results) = 1..total_jobs
              /\ JobsOf(guilds) = {results[i].job : i \in {k \in 1..Len(results) : results[k].some}}
              /\ Len(guilds) = Cardinality(JobsOf(guilds))

C2_Witness ==
    /\ SchedDone
    /\ total_jobs = MaxJobs
    /\ sched_kind = "player"
    /\ \E i, k \in 1..Len(final_players) :
         /\ final_players[i].cause = "NotFound"
         /\ final_players[k].cause \in {"RateLimit", "Server", "Other"}

(***************************************************************************)
(* Staging & swap store (database.rs) and its use by generate_members_data *)
(*   members      the active table, the only one readers query             *)
(*   members_tmp  the staging table, UNIQUE(name, realm)                   *)
(*   members_old  the backup of the previous active table                  *)
(* swap_members_tables runs its four statements on a transaction of the    *)
(* pool (`execute(&mut *tx)`): they change the transaction's view, which   *)
(* becomes the committed state at `tx.commit()`; a `?` that leaves the     *)
(* function drops `tx`, which rolls the transaction back.                  *)
(***************************************************************************)

\* refresh cycles explored in one behaviour
MaxCycles == 2

\* insert_temp_member calls explored in one cycle
MaxWrites == 2

\* (realm, name) identities and the rio_all values a record can carry
\* (0: the zeroed placeholder)
Identities == {"realm1/alice", "realm1/bob"}

Scores == {0, 2500}

Members == [id : Identities, rio_all : Scores]

NoTable == [exists |-> FALSE, rows |-> {}]

EmptyTable == [exists |-> TRUE, rows |-> {}]

\* the rows of staging stay
\* the DELETE names the active table
clear_members(d) == [d EXCEPT !.members.rows = {}]

clear_nothing(d) == d

\* DELETE FROM members_tmp
clear_temp_members(d) ==
    [d EXCEPT !.members_tmp.rows = {}]

\* a plain INSERT without the unique key: every row stays
insert_plain(d, m) ==
    [d EXCEPT !.members_tmp.rows = @ \cup {m}]

\* INSERT OR IGNORE: the first row of an identity stays
insert_or_ignore(d, m) ==
    IF \E r \in d.members_tmp.rows : r.id = m.id
    THEN d
    ELSE [d EXCEPT !.members_tmp.rows = @ \cup {m}]

\* the row lands in the active table
insert_into_members(d, m) ==
    [d EXCEPT !.members.rows = {r \in @ : r.id # m.id} \cup {m}]

\* INSERT OR REPLACE INTO members_tmp ..., under UNIQUE(name, realm)
insert_temp_member(d, m) ==
    [d EXCEPT !.members_tmp.rows = {r \in @ : r.id # m.id} \cup {m}]

\* the four statements of swap_members_tables, in order
SwapStatements == <<"drop_old", "rename_members", "rename_tmp", "create_tmp">>

\* whether statement `st` can execute on the tables d (else SQLite reports
\* "no such table" / "table already exists")
Executable(st, d) ==
    CASE st = "drop_old"       -> TRUE
      [] st = "rename_members" -> d.members.exists /\ ~d.members_old.exists
      [] st = "rename_tmp"     -> d.members_tmp.exists /\ ~d.members.exists
      [] st = "create_tmp"     -> ~d.members_tmp.exists

\* the active table is dropped instead of being kept as the backup
ExecuteWithoutBackup(st, d) ==
    CASE st = "drop_old"       -> [d EXCEPT !.members_old = NoTable]
      [] st = "rename_members" -> [d EXCEPT !.members_old = EmptyTable,
                                            !.members = NoTable]
      [] st = "rename_tmp"     -> [d EXCEPT !.members = d.members_tmp,
                                            !.members_tmp = NoTable]
      [] st = "create_tmp"     -> [d EXCEPT !.members_tmp = EmptyTable]

\* the tables after statement `st`
Execute(st, d) ==
    CASE st = "drop_old"       -> [d EXCEPT !.members_old = NoTable]
      [] st = "rename_members" -> [d EXCEPT !.members_old = d.members,
                                            !.members = NoTable]
      [] st = "rename_tmp"     -> [d EXCEPT !.members = d.members_tmp,
                                            !.members_tmp = NoTable]
      [] st = "create_tmp"     -> [d EXCEPT !.members_tmp = EmptyTable]

\* the statements take effect as they run, outside any transaction
RollbackKeepsWork(committed, work) == work

\* the committed tables after the transaction is dropped without a commit
Rollback(committed, work) == committed

\* a read sees the statements of the open transaction
DirtyRead(committed, work, open) == IF open THEN work.members ELSE committed.members

\* SELECT ... FROM members on a connection of the pool: the committed table
ReaderView(committed, work, open) == committed.members

\* get_members_for_ranking(None): the rows of the active table, or an error
\* when it does not exist
get_members_for_ranking ==
    LET t == ReaderView(db, tx_db, tx_open)
    IN  IF t.exists THEN [ok |-> TRUE, rows |-> t.rows]
        ELSE [ok |-> FALSE, rows |-> {}]

\* get_stats: SELECT COUNT(*) FROM members
get_stats ==
    LET t == ReaderView(db, tx_db, tx_open)
    IN  IF t.exists THEN [ok |-> TRUE, count |-> Cardinality(t.rows)]
        ELSE [ok |-> FALSE, count |-> 0]

NotRead == [ok |-> FALSE, rows |-> {}, read |-> FALSE]

\* generate_members_data starts: database.clear_temp_members().await?
NoStale == [rows |-> {}, how |-> "idle"]

\* generate_members_data returns early after the clear (get_all_guilds fails),
\* or the process stops while records are being stored: no swap is invoked
CycleAbort ==
    /\ cycle_pc = "writing"
    /\ cycle_pc' = "aborted"
    /\ UNCHANGED <<db, tx_open, tx_pc, tx_db, cycles, writes, written, cycle_pre, stale,
                   swap_pre, swap_staged, observed>>
    /\ UNCHANGED notStoreVars

CycleClear(ok) ==
    /\ cycle_pc \in {"idle", "done", "clear_failed", "swap_failed", "aborted"}
    /\ cycles < MaxCycles
    /\ cycles' = cycles + 1
    /\ writes' = 0
    /\ written' = <<>>
    /\ cycle_pre' = db.members.rows
    /\ stale' = [rows |-> db.members_tmp.rows, how |-> cycle_pc]
    /\ observed' = NotRead
    /\ IF ok
       THEN /\ db' = clear_temp_members(db)
            /\ cycle_pc' = "writing"
       ELSE /\ db' = db
            /\ cycle_pc' = "clear_failed"
    /\ UNCHANGED <<tx_open, tx_pc, tx_db, swap_pre, swap_staged>>
    /\ UNCHANGED notStoreVars

\* the consumer stores one record: `if let Err(e) = insert_temp_member(..) {
\* error!(..) }`: a failed insert is logged and the loop goes on
CycleInsert(m, ok) ==
    /\ cycle_pc = "writing"
    /\ writes < MaxWrites
    /\ writes' = writes + 1
    /\ IF ok
       THEN /\ db' = insert_temp_member(db, m)
            /\ written' = Append(written, m)
       ELSE UNCHANGED <<db, written>>
    /\ UNCHANGED <<tx_open, tx_pc, tx_db, cycle_pc, cycles, cycle_pre, stale, swap_pre,
                   swap_staged, observed>>
    /\ UNCHANGED notStoreVars

\* swap_members_tables: self.pool.begin().await
SwapBegin(ok) ==
    /\ cycle_pc = "writing"
    /\ swap_pre' = db.members.rows
    /\ swap_staged' = db.members_tmp.rows
    /\ observed' = NotRead
    /\ IF ok
       THEN /\ cycle_pc' = "swapping"
            /\ tx_open' = TRUE
            /\ tx_pc' = 0
            /\ tx_db' = db
       ELSE /\ cycle_pc' = "swap_failed"
            /\ tx_pc' = 0
            /\ UNCHANGED <<tx_open, tx_db>>
    /\ UNCHANGED <<db, cycles, writes, written, cycle_pre, stale>>
    /\ UNCHANGED notStoreVars

\* the next statement runs on the transaction; when it fails the `?` returns
\* the error and the dropped transaction is rolled back
SwapStatement(ok) ==
    /\ cycle_pc = "swapping"
    /\ tx_open
    /\ tx_pc < Len(SwapStatements)
    /\ LET st == SwapStatements[tx_pc + 1]
       IN  IF ok /\ Executable(st, tx_db)
           THEN /\ tx_db' = Execute(st, tx_db)
                /\ tx_pc' = tx_pc + 1
                /\ UNCHANGED <<db, tx_open, cycle_pc>>
           ELSE /\ db' = Rollback(db, tx_db)
                /\ tx_db' = db'
                /\ tx_open' = FALSE
                /\ tx_pc' = tx_pc
                /\ cycle_pc' = "swap_failed"
    /\ UNCHANGED <<cycles, writes, written, cycle_pre, stale, swap_pre, swap_staged, observed>>
    /\ UNCHANGED notStoreVars

\* tx.commit().await
SwapCommit(ok) ==
    /\ cycle_pc = "swapping"
    /\ tx_open
    /\ tx_pc = Len(SwapStatements)
    /\ tx_open' = FALSE
    /\ tx_pc' = tx_pc
    /\ IF ok
       THEN /\ db' = tx_db
            /\ cycle_pc' = "done"
       ELSE /\ db' = Rollback(db, tx_db)
            /\ cycle_pc' = "swap_failed"
    /\ tx_db' = db'
    /\ UNCHANGED <<cycles, writes, written, cycle_pre, stale, swap_pre, swap_staged, observed>>
    /\ UNCHANGED notStoreVars

\* a reader (another task or process) queries the active table
Read ==
    /\ observed' = [ok |-> get_members_for_ranking.ok,
                    rows |-> get_members_for_ranking.rows, read |-> TRUE]
    /\ UNCHANGED <<db, tx_open, tx_pc, tx_db, cycle_pc, cycles, writes, written,
                   cycle_pre, stale, swap_pre, swap_staged>>
    /\ UNCHANGED notStoreVars

\* the tables as the migrations leave them
MigratedTables ==
    [members |-> EmptyTable, members_tmp |-> EmptyTable, members_old |-> NoTable]

StoreIdle ==
    /\ db = MigratedTables
    /\ tx_open = FALSE
    /\ tx_pc = 0
    /\ tx_db = MigratedTables
    /\ cycle_pc = "idle"
    /\ cycles = 0
    /\ writes = 0
    /\ written = <<>>
    /\ cycle_pre = {}
    /\ stale = NoStale
    /\ swap_pre = {}
    /\ swap_staged = {}
    /\ observed = NotRead

StoreNext ==
    \/ \E ok \in BOOLEAN : CycleClear(ok)
    \/ \E m \in Members, ok \in BOOLEAN : CycleInsert(m, ok)
    \/ \E ok \in BOOLEAN : SwapBegin(ok)
    \/ \E ok \in BOOLEAN : SwapStatement(ok)
    \/ \E ok \in BOOLEAN : SwapCommit(ok)
    \/ CycleAbort
    \/ Read

\* the rows a sequence of stored records leaves under UNIQUE(name, realm) with
\* the last record of an identity winning
LastWrites(log) ==
    {log[k] : k \in {i \in 1..Len(log) : \A l \in (i + 1)..Len(log) : log[l].id # log[i].id}}

OnePerIdentity(rows) == \A r1, r2 \in rows : r1.id = r2.id => r1 = r2

(***************************************************************************)
(* C3: when swap_members_tables fails at any statement or at the commit,   *)
(* or is still between two of its statements, a read of the active table   *)
(* succeeds and returns exactly the rows it held when the swap began.      *)
(***************************************************************************)
C3_SwapAllOrNothing ==
    cycle_pc \in {"swapping", "swap_failed"} =>
        /\ get_members_for_ranking.ok
        /\ get_members_for_ranking.rows = swap_pre
        /\ db.members.exists

C3_Witness ==
    /\ cycle_pc = "swap_failed"
    /\ tx_pc = 3
    /\ swap_pre # {}
    /\ swap_staged # swap_pre
    /\ get_members_for_ranking.rows = swap_pre

(***************************************************************************)
(* C4: after a cycle whose swap committed, the active table holds exactly  *)
(* the records the cycle stored in staging: one row per identity, and for  *)
(* an identity stored more than once the record stored last.               *)
(***************************************************************************)
C4_ActiveIsStaged ==
    cycle_pc = "done" =>
        /\ db.members.exists
        /\ db.members.rows = LastWrites(written)
        /\ OnePerIdentity(db.members.rows)

C4_Witness ==
    /\ cycle_pc = "done"
    /\ cycles = 2
    /\ Len(written) = 2
    /\ written[1].id = written[2].id
    /\ written[1] # written[2]
    /\ db.members.rows = {written[2]}
    /\ cycle_pre # {}

(***************************************************************************)
(* C5: from the start of a cycle until its swap commits, through every     *)
(* clear_temp_members and insert_temp_member, a read of the active table   *)
(* (get_members_for_ranking, get_stats) returns what it returned when the  *)
(* cycle started.                                                          *)
(***************************************************************************)
C5_StagingWritesInvisible ==
    cycle_pc \in {"writing", "swapping", "clear_failed", "swap_failed"} =>
        /\ get_members_for_ranking = [ok |-> TRUE, rows |-> cycle_pre]
        /\ get_stats = [ok |-> TRUE, count |-> Cardinality(cycle_pre)]
        /\ observed.read => (observed.ok /\ observed.rows = cycle_pre)

C5_Witness ==
    /\ cycle_pc = "writing"
    /\ Len(written) = MaxWrites
    /\ cycle_pre # {}
    /\ LastWrites(written) # cycle_pre
    /\ db.members_tmp.rows = LastWrites(written)
    /\ observed.read
    /\ observed.rows = cycle_pre

(***************************************************************************)
(* C6: a read of the active table made while swap_members_tables runs, at  *)
(* any point between its statements, or after it, returns the complete     *)
(* rows of before the swap or the complete rows that were staged: the      *)
(* former until the commit, the latter after it; it never fails on a       *)
(* missing table.                                                          *)
(***************************************************************************)
C6_ReadersSeePreOrPost ==
    (observed.read /\ cycle_pc \in {"swapping", "swap_failed", "done"}) =>
        /\ observed.ok
        /\ observed.rows \in {swap_pre, swap_staged}
        /\ cycle_pc \in {"swapping", "swap_failed"} => observed.rows = swap_pre

C6_Witness ==
    /\ cycle_pc = "swapping"
    /\ tx_pc = 2
    /\ ~tx_db.members.exists
    /\ observed.read
    /\ observed.rows = swap_pre
    /\ swap_pre # {}
    /\ swap_pre # swap_staged

(***************************************************************************)
(* Progression ranking engine (guild_data.rs)                              *)
(* A progression summary is a string; it is modelled as the sequence of    *)
(* its characters, and parse_progression works on the characters as the    *)
(* code does.                                                              *)
(***************************************************************************)

\* enum Difficulty { Lfr = 1, Normal = 2, Heroic = 3, Mythic = 4 }
Lfr == 1
Normal == 2
Heroic == 3
Mythic == 4

Digits == {"0", "1", "2", "3", "4", "5", "6", "7", "8", "9"}

DigitValue(c) ==
    CASE c = "0" -> 0 [] c = "1" -> 1 [] c = "2" -> 2 [] c = "3" -> 3 [] c = "4" -> 4
      [] c = "5" -> 5 [] c = "6" -> 6 [] c = "7" -> 7 [] c = "8" -> 8 [] c = "9" -> 9

\* progress.split('/').next(): the characters before the first '/'
RECURSIVE BeforeSlash(_)
BeforeSlash(s) ==
    IF s = <<>> \/ Head(s) = "/" THEN <<>>
    ELSE <<Head(s)>> \o BeforeSlash(Tail(s))

\* str::trim
RECURSIVE TrimStart(_)
TrimStart(s) ==
    IF s # <<>> /\ Head(s) = " " THEN TrimStart(Tail(s)) ELSE s

RECURSIVE TrimEnd(_)
TrimEnd(s) ==
    IF s # <<>> /\ s[Len(s)] = " " THEN TrimEnd(SubSeq(s, 1, Len(s) - 1)) ELSE s

trim(s) == TrimEnd(TrimStart(s))

\* the value of a run of decimal digits, -1 when a character is no digit
RECURSIVE ParseDigits(_, _)
ParseDigits(s, acc) ==
    IF s = <<>> THEN acc
    ELSE IF Head(s) \notin Digits THEN -1
    ELSE ParseDigits(Tail(s), acc * 10 + DigitValue(Head(s)))

\* str::parse::<u8>(): an optional '+', at least one digit, at most 255;
\* -1 stands for Err
parse_u8(s) ==
    LET body == IF s # <<>> /\ Head(s) = "+" THEN Tail(s) ELSE s
        v == IF body = <<>> THEN -1 ELSE ParseDigits(body, 0)
    IN  IF v > 255 THEN -1 ELSE v

\* progress.contains("LFR")
ContainsLFR(s) ==
    \E i \in 1..(Len(s) - 2) : s[i] = "L" /\ s[i + 1] = "F" /\ s[i + 2] = "R"

\* Difficulty::from_progress
from_progress(progress) ==
    LET difficulty_char == IF progress = <<>> THEN "N" ELSE progress[Len(progress)]
    IN  CASE difficulty_char = "M" -> Mythic
          [] difficulty_char = "H" -> Heroic
          [] difficulty_char = "N" -> Normal
          [] OTHER -> IF ContainsLFR(progress) THEN Lfr ELSE Normal

\* parse_progression: (boss_count, difficulty)
parse_progression(progress) ==
    LET n == parse_u8(trim(BeforeSlash(progress)))
    IN  [bosses |-> IF n = -1 THEN 0 ELSE n, difficulty |-> from_progress(progress)]

\* Ord::cmp on integers
Cmp(x, y) == IF x < y THEN "Less" ELSE IF x > y THEN "Greater" ELSE "Equal"

NoRank == [some |-> FALSE, value |-> 0]
SomeRank(v) == [some |-> TRUE, value |-> v]

\* defeated_at: Option<String>, the string a sequence of characters
NoTime == [some |-> FALSE, value |-> <<>>]
SomeTime(t) == [some |-> TRUE, value |-> t]

\* Ord::cmp on the characters of a timestamp (all digits here)
CharCmp(c, d) == Cmp(DigitValue(c), DigitValue(d))

\* String::cmp: lexicographic, a proper prefix is Less
RECURSIVE StrCmp(_, _)
StrCmp(s, t) ==
    IF s = <<>> /\ t = <<>> THEN "Equal"
    ELSE IF s = <<>> THEN "Less"
    ELSE IF t = <<>> THEN "Greater"
    ELSE IF CharCmp(Head(s), Head(t)) # "Equal" THEN CharCmp(Head(s), Head(t))
    ELSE StrCmp(Tail(s), Tail(t))

\* the lower difficulty sorts first
LowerDifficultyFirst(diff_a, diff_b) == Cmp(diff_a, diff_b)

\* STEP 1 when diff_a != diff_b: `return diff_b.cmp(&diff_a)`
CompareDifficulty(diff_a, diff_b) == Cmp(diff_b, diff_a)

\* world rank decides between any two records of one difficulty
AnyMythicPair(diff_a, bosses_a, bosses_b) == diff_a = Mythic

RankDecidesAlways(diff_a, bosses_a, bosses_b) == TRUE

\* `diff_a == Difficulty::Mythic && bosses_a == 8 && bosses_b == 8`
BothCuttingEdge(diff_a, bosses_a, bosses_b) ==
    diff_a = Mythic /\ bosses_a = 8 /\ bosses_b = 8

\* a.rank.as_ref().filter(|r| r.value() > 0)
FilterRank(rank) == IF rank.some /\ rank.value > 0 THEN rank ELSE NoRank

\* the higher world rank number sorts first, and no rank before a rank
CompareWorldRankReversed(a, b) ==
    LET rank_a == FilterRank(a.rank)
        rank_b == FilterRank(b.rank)
    IN  CASE rank_a.some /\ rank_b.some   -> Cmp(rank_b.value, rank_a.value)
          [] rank_a.some /\ ~rank_b.some  -> "Greater"
          [] ~rank_a.some /\ rank_b.some  -> "Less"
          [] OTHER -> Cmp(b.best_percent, a.best_percent)

\* the match on (rank_a, rank_b) of the 8/8 Mythic case
CompareWorldRank(a, b) ==
    LET rank_a == FilterRank(a.rank)
        rank_b == FilterRank(b.rank)
    IN  CASE rank_a.some /\ rank_b.some   -> Cmp(rank_a.value, rank_b.value)
          [] rank_a.some /\ ~rank_b.some  -> "Less"
          [] ~rank_a.some /\ rank_b.some  -> "Greater"
          [] OTHER -> Cmp(a.best_percent, b.best_percent)

\* equal boss counts are decided by best percent before the kill time
CompareBossesThenPercent(a, bosses_a, b, bosses_b) ==
    IF bosses_a # bosses_b THEN Cmp(bosses_b, bosses_a)
    ELSE IF a.best_percent # b.best_percent THEN Cmp(a.best_percent, b.best_percent)
    ELSE CASE a.defeated_at.some /\ b.defeated_at.some ->
                   StrCmp(a.defeated_at.value, b.defeated_at.value)
           [] a.defeated_at.some /\ ~b.defeated_at.some -> "Less"
           [] ~a.defeated_at.some /\ b.defeated_at.some -> "Greater"
           [] OTHER -> "Equal"

\* the match on bosses_b.cmp(&bosses_a) of all other cases
CompareBossesThenKill(a, bosses_a, b, bosses_b) ==
    IF bosses_a # bosses_b THEN Cmp(bosses_b, bosses_a)
    ELSE CASE a.defeated_at.some /\ b.defeated_at.some ->
                   StrCmp(a.defeated_at.value, b.defeated_at.value)
           [] a.defeated_at.some /\ ~b.defeated_at.some -> "Less"
           [] ~a.defeated_at.some /\ b.defeated_at.some -> "Greater"
           [] OTHER -> Cmp(a.best_percent, b.best_percent)

\* the closure passed to guilds.sort_by
compare_guilds(a, b) ==
    LET pa == parse_progression(a.progress)
        pb == parse_progression(b.progress)
    IN  IF pa.difficulty # pb.difficulty
        THEN CompareDifficulty(pa.difficulty, pb.difficulty)
        ELSE IF BothCuttingEdge(pa.difficulty, pa.bosses, pb.bosses)
        THEN CompareWorldRank(a, b)
        ELSE CompareBossesThenKill(a, pa.bosses, b, pb.bosses)

\* slice::sort_by is a stable sort: x goes before the first element it is
\* Less than, after every element it is Equal to
RECURSIVE InsertStable(_, _)
InsertStable(s, x) ==
    IF s = <<>> THEN <<x>>
    ELSE IF compare_guilds(x, Head(s)) = "Less" THEN <<x>> \o s
    ELSE <<Head(s)>> \o InsertStable(Tail(s), x)

RECURSIVE SortBy(_)
SortBy(s) ==
    IF s = <<>> THEN <<>>
    ELSE InsertStable(SortBy(SubSeq(s, 1, Len(s) - 1)), s[Len(s)])

\* sort_guilds
sort_guilds(gs) == SortBy(gs)

\* longest list passed to sort_guilds
MaxGuilds == 2

\* "8/8 M": the full Mythic clear
CuttingEdge == <<"8", "/", "8", " ", "M">>

\* "3/8 M", "8/8 H", "6/8 H", "1/8 N", "8/8 LFR"
OtherSummaries ==
    { <<"3", "/", "8", " ", "M">>,
      <<"8", "/", "8", " ", "H">>,
      <<"6", "/", "8", " ", "H">>,
      <<"1", "/", "8", " ", "N">>,
      <<"8", "/", "8", " ", "L", "F", "R">> }

\* "No progress", the summary fetch_guild_data fills in when the service
\* sends none
NoProgress == <<"N", "o", " ", "p", "r", "o", "g", "r", "e", "s", "s">>

\* summaries without a boss count and without a difficulty token
UnparsedSummaries == {NoProgress, <<>>}

\* raid_rankings[raid].mythic.world: Option<u32>
WorldRanks == {NoRank, SomeRank(0), SomeRank(10), SomeRank(500)}

BestPercents == {30, 75}

\* two kill timestamps of the service's fixed-width format, cut down to the
\* day of the month: "09" and "10"
EarlierKill == <<"0", "9">>
LaterKill == <<"1", "0">>

\* (best_percent, defeated_at) of the records below the full Mythic clear
TieBreaks ==
    { [best_percent |-> 30, defeated_at |-> NoTime],
      [best_percent |-> 75, defeated_at |-> NoTime],
      [best_percent |-> 75, defeated_at |-> SomeTime(EarlierKill)],
      [best_percent |-> 30, defeated_at |-> SomeTime(LaterKill)] }

\* the records explored: every world rank and percent on a full Mythic clear,
\* a rank or none with every tie-break on the others, and the records
\* without a parsed summary
GuildFields ==
    [progress : {CuttingEdge}, rank : WorldRanks, best_percent : BestPercents,
     defeated_at : {NoTime}]
      \cup
    { [progress |-> p, rank |-> r, best_percent |-> t.best_percent,
       defeated_at |-> t.defeated_at]
        : p \in OtherSummaries, r \in {NoRank, SomeRank(10)}, t \in TieBreaks }
      \cup
    [progress : UnparsedSummaries, rank : {NoRank}, best_percent : {75},
     defeated_at : {NoTime}]

\* a guild record; its name is its place in the input list
GuildData(i, f) ==
    [name |-> i, progress |-> f.progress, rank |-> f.rank,
     best_percent |-> f.best_percent, defeated_at |-> f.defeated_at]

\* the list handed to sort_guilds: fs[i] are the fields of the i-th record
GuildList(fs) == [i \in DOMAIN fs |-> GuildData(i, fs[i])]

\* let sorted_guilds = sort_guilds(guilds)
SortGuilds ==
    /\ sort_pc = "input"
    /\ sorted' = sort_guilds(guilds_in)
    /\ sort_pc' = "sorted"
    /\ UNCHANGED guilds_in
    /\ UNCHANGED notSortVars

SortIdle ==
    /\ guilds_in = <<>>
    /\ sorted = <<>>
    /\ sort_pc = "input"

SortInit ==
    /\ \E n \in 1..MaxGuilds : \E fs \in [1..n -> GuildFields] :
            guilds_in = GuildList(fs)
    /\ sorted = <<>>
    /\ sort_pc = "input"

SortNext == SortGuilds

Names(gs) == [i \in 1..Len(gs) |-> gs[i].name]

\* the output holds the records of the input, each once
IsPermutation(out, inp) ==
    /\ Len(out) = Len(inp)
    /\ \A i \in 1..Len(inp) : \E k \in 1..Len(out) : out[k] = inp[i]

Bosses(g) == parse_progression(g.progress).bosses
Tier(g) == parse_progression(g.progress).difficulty
IsCuttingEdge(g) == Tier(g) = Mythic /\ Bosses(g) = 8

\* the record carries a world rank: a positive integer (a stored 0 is the
\* service's "unranked")
HasRank(g) == g.rank.some /\ g.rank.value > 0

(***************************************************************************)
(* C7: in the output of sort_guilds, a record stands before every record   *)
(* of the same difficulty with a lower boss count, whatever the world      *)
(* rank, best percent and kill timestamp of the two (two 8/8 Mythic        *)
(* records excepted).                                                      *)
(***************************************************************************)
C7_BossCountDominates ==
    sort_pc = "sorted" =>
        /\ IsPermutation(sorted, guilds_in)
        /\ \A i, j \in 1..Len(sorted) :
             ( /\ Tier(sorted[i]) = Tier(sorted[j])
               /\ Bosses(sorted[i]) > Bosses(sorted[j])
               /\ ~(IsCuttingEdge(sorted[i]) /\ IsCuttingEdge(sorted[j])) )
             => i < j

\* the Heroic case of the tests: 8/8 without a rank above 6/8 with one
C7_Witness ==
    /\ sort_pc = "sorted"
    /\ \E i, j \in 1..Len(sorted) :
         /\ i < j
         /\ Tier(sorted[i]) = Heroic /\ Tier(sorted[j]) = Heroic
         /\ Bosses(sorted[i]) > Bosses(sorted[j])
         /\ ~HasRank(sorted[i]) /\ HasRank(sorted[j])
         /\ sorted[i].best_percent > sorted[j].best_percent
         /\ sorted[i].name > sorted[j].name

(***************************************************************************)
(* C8: in the output of sort_guilds, a record stands before every record   *)
(* of a lower difficulty tier (Mythic > Heroic > Normal > LFR), whatever   *)
(* the boss counts, world ranks and percents.                              *)
(***************************************************************************)
C8_DifficultyDominates ==
    sort_pc = "sorted" =>
        /\ IsPermutation(sorted, guilds_in)
        /\ \A i, j \in 1..Len(sorted) :
             Tier(sorted[i]) > Tier(sorted[j]) => i < j

\* a Mythic record with fewer bosses and no rank above a full Heroic clear
\* with a rank
C8_Witness ==
    /\ sort_pc = "sorted"
    /\ \E i, j \in 1..Len(sorted) :
         /\ i < j
         /\ Tier(sorted[i]) = Mythic /\ Tier(sorted[j]) = Heroic
         /\ Bosses(sorted[i]) < Bosses(sorted[j])
         /\ ~HasRank(sorted[i]) /\ HasRank(sorted[j])
         /\ sorted[i].name > sorted[j].name

(***************************************************************************)
(* C9: changing the world rank of a record that is not 8/8 Mythic, to any  *)
(* value or to none, leaves the order sort_guilds produces unchanged.      *)
(***************************************************************************)
C9_RankOnlyAtCuttingEdge ==
    sort_pc = "sorted" =>
        \A k \in 1..Len(guilds_in), r \in WorldRanks :
            ~IsCuttingEdge(guilds_in[k]) =>
                Names(sort_guilds([guilds_in EXCEPT ![k].rank = r])) = Names(sorted)

\* two records of one difficulty and boss count below 8/8 Mythic, the one
\* with the rank standing behind the one without
C9_Witness ==
    /\ sort_pc = "sorted"
    /\ \E i, j \in 1..Len(sorted) :
         /\ i < j
         /\ ~IsCuttingEdge(sorted[i]) /\ ~IsCuttingEdge(sorted[j])
         /\ sorted[i].progress = sorted[j].progress
         /\ ~HasRank(sorted[i]) /\ HasRank(sorted[j])
         /\ sorted[i].name > sorted[j].name

(***************************************************************************)
(* C10: of two 8/8 Mythic records in the output of sort_guilds, the one    *)
(* that stands first has the lower or equal world rank when both have a    *)
(* rank, is the one with the rank when only one has, and has the lower or  *)
(* equal best percent when neither has.                                    *)
(***************************************************************************)
C10_CuttingEdgeByRank ==
    sort_pc = "sorted" =>
        /\ IsPermutation(sorted, guilds_in)
        /\ \A i, j \in 1..Len(sorted) :
             (i < j /\ IsCuttingEdge(sorted[i]) /\ IsCuttingEdge(sorted[j])) =>
                 /\ (HasRank(sorted[i]) /\ HasRank(sorted[j])) =>
                        sorted[i].rank.value <= sorted[j].rank.value
                 /\ HasRank(sorted[i]) \/ ~HasRank(sorted[j])
                 /\ (~HasRank(sorted[i]) /\ ~HasRank(sorted[j])) =>
                        sorted[i].best_percent <= sorted[j].best_percent

\* the three cases, each against the input order
C10_Witness ==
    /\ sort_pc = "sorted"
    /\ Len(sorted) = 2
    /\ IsCuttingEdge(sorted[1]) /\ IsCuttingEdge(sorted[2])
    /\ sorted[1].name = 2
    /\ HasRank(sorted[1]) /\ HasRank(sorted[2])
    /\ sorted[1].rank.value < sorted[2].rank.value
    /\ sorted[1].best_percent > sorted[2].best_percent

\* the moment a fixed-width timestamp denotes
TimeOf(t) == ParseDigits(t, 0)

HasKillTime(g) == g.defeated_at.some

(***************************************************************************)
(* C11: of two records of one difficulty and one boss count that are not   *)
(* both 8/8 Mythic, the one sort_guilds puts first has the earlier or      *)
(* equal first-kill timestamp when both have one, is the one with the      *)
(* timestamp when only one has (whatever the best percents), and has the   *)
(* lower or equal best percent when neither has.                           *)
(***************************************************************************)
C11_KillTimeThenPercent ==
    sort_pc = "sorted" =>
        /\ IsPermutation(sorted, guilds_in)
        /\ \A i, j \in 1..Len(sorted) :
             ( /\ i < j
               /\ Tier(sorted[i]) = Tier(sorted[j])
               /\ Bosses(sorted[i]) = Bosses(sorted[j])
               /\ ~(IsCuttingEdge(sorted[i]) /\ IsCuttingEdge(sorted[j])) ) =>
                 /\ (HasKillTime(sorted[i]) /\ HasKillTime(sorted[j])) =>
                        TimeOf(sorted[i].defeated_at.value)
                            <= TimeOf(sorted[j].defeated_at.value)
                 /\ HasKillTime(sorted[i]) \/ ~HasKillTime(sorted[j])
                 /\ (~HasKillTime(sorted[i]) /\ ~HasKillTime(sorted[j])) =>
                        sorted[i].best_percent <= sorted[j].best_percent

\* a record with a kill time and the higher percent, second in the input,
\* sorted above one of the same progress without a kill time
C11_Witness ==
    /\ sort_pc = "sorted"
    /\ Len(sorted) = 2
    /\ sorted[1].progress = sorted[2].progress
    /\ ~IsCuttingEdge(sorted[1])
    /\ sorted[1].name = 2
    /\ HasKillTime(sorted[1]) /\ ~HasKillTime(sorted[2])
    /\ sorted[1].best_percent > sorted[2].best_percent

\* the orders in which the records of a list of n records can be handed in
Orderings(n) == {p \in [1..n -> 1..n] : \A i, j \in 1..n : i # j => p[i] # p[j]}

Reordered(gs, p) == [i \in 1..Len(gs) |-> gs[p[i]]]

(***************************************************************************)
(* C12: sort_guilds yields the same order of the records for every order   *)
(* in which the same records are handed in, and the same output when it    *)
(* is run again on the same input.  The closure of sort_by answers Equal   *)
(* for two different guilds that agree on the fields it compares, and the  *)
(* stable sort then leaves them in their input order.                      *)
(***************************************************************************)
C12_AsStated ==
    sort_pc = "sorted" =>
        /\ sort_guilds(guilds_in) = sorted
        /\ \A p \in Orderings(Len(guilds_in)) :
             Names(sort_guilds(Reordered(guilds_in, p))) = Names(sorted)

(***************************************************************************)
(* C13: parse_progression gives boss count 0 and the lowest difficulty,    *)
(* LFR, for a summary without a boss count and without a difficulty token  *)
(* ("No progress", the empty string), so that sort_guilds never puts such  *)
(* a record above a record with a parsed LFR summary.  from_progress       *)
(* answers Normal for these summaries, one tier above LFR.                 *)
(***************************************************************************)
C13_AsStated ==
    sort_pc = "sorted" =>
        \A i \in 1..Len(sorted) :
            sorted[i].progress \in UnparsedSummaries =>
                /\ parse_progression(sorted[i].progress)
                      = [bosses |-> 0, difficulty |-> Lfr]
                /\ \A j \in 1..Len(sorted) :
                     ( /\ sorted[j].progress \notin UnparsedSummaries
                       /\ Tier(sorted[j]) = Lfr ) => j < i

(***************************************************************************)
(* C14: at every moment of a scheduler run, of player jobs or of guild     *)
(* jobs, at most rate_limiting.concurrent_requests jobs are in flight      *)
(* (dispatched and not yet completed).  The player run is bounded by the   *)
(* literal 5 of buffer_unordered(5) instead, whatever is configured.       *)
(***************************************************************************)
C14_AsStated ==
    sched_kind \in {"player", "guild"} =>
        Cardinality(InFlight) <= concurrent_requests

\* what the two runs do keep: the n passed to buffer_unordered
C14_BufferBound ==
    sched_kind \in {"player", "guild"} =>
        Cardinality(InFlight) <= BufferSize(sched_kind)

(***************************************************************************)
(* One refresh cycle: generate_members_data (parser.rs)                    *)
(*   clear_temp_members()?                                                 *)
(*   the rosters are fetched; a roster that fails is skipped               *)
(*   players = data_dict.keys(): one job per (realm, name)                 *)
(*   stream::iter(players)...buffer_unordered(5), consumed by              *)
(*     while let Some(result) = results.next().await { push; batch write } *)
(*   swap_members_tables()?                                                *)
(* The futures of the stream run only while the consumer polls it, so no   *)
(* job moves while a batch is written.  The service answers a profile      *)
(* request with the name and realm it was asked for.                       *)
(***************************************************************************)

\* parser.rs: final_players.len() % 100 == 0
write_batch == 100

\* rio_all of the populated record the service returns
PopulatedScore == 2500

\* the player lists the rosters can give: distinct keys, possibly none
PlayerLists ==
    {ps \in UNION {[1..n -> Identities] : n \in 0..MaxJobs} :
        \A i, j \in DOMAIN ps : i # j => ps[i] # ps[j]}

\* the record is keyed by its place in the completion order
DbMemberByPosition(ps, rec) ==
    [id |-> ps[writes + 1], rio_all |-> IF rec.success THEN PopulatedScore ELSE 0]

\* the placeholder carries the score of a populated record
DbMemberAlwaysPopulated(ps, rec) ==
    [id |-> ps[rec.job], rio_all |-> PopulatedScore]

\* the DbMember built from a record of final_players: MythicPlusScore::zero()
\* on the placeholder
DbMemberOf(ps, rec) ==
    [id |-> ps[rec.job], rio_all |-> IF rec.success THEN PopulatedScore ELSE 0]

\* a batch is written at the multiples of the threshold only
BatchDueAtThreshold(len, total) == len % write_batch = 0

\* final_players.len() % 100 == 0 || final_players.len() == total_players
BatchDueAt(len, total) == len % write_batch = 0 \/ len = total

\* the test is made after a push
BatchDue ==
    /\ Len(final_players) > 0
    /\ BatchDueAt(Len(final_players), total_jobs)

\* the consumer never stores anything
BatchNeverPending == FALSE

\* records of the due batch are still to be stored (players_written behind)
BatchPending == BatchDue /\ writes < Len(final_players)

\* generate_members_data starts: database.clear_temp_members().await?
RefreshStart(ok) ==
    /\ sched_kind = "none"
    /\ cycle_pc = "idle"
    /\ CycleClear(ok)

\* the rosters are read and the player stream is built
RefreshRoster(ps) ==
    /\ sched_kind = "none"
    /\ cycle_pc = "writing"
    /\ players' = ps
    /\ sched_kind' = "player"
    /\ total_jobs' = Len(ps)
    /\ job_pc' = [j \in Jobs |-> IF j <= Len(ps) THEN "queued" ELSE "none"]
    /\ attempts' = [j \in Jobs |-> 0]
    /\ final_players' = <<>>
    /\ job_requests' = [j \in Jobs |-> 0]
    /\ job_files' = [j \in Jobs |-> 0]
    /\ UNCHANGED <<concurrent_requests, results>>
    /\ UNCHANGED <<retryVars, storeVars, sortVars, fetchVars, overlapVars, batchVars, rosterVars>>

RefreshDispatch(j) == cycle_pc = "writing" /\ ~BatchPending /\ Dispatch(j)

RefreshDelayOver(j) == cycle_pc = "writing" /\ ~BatchPending /\ PlayerDelayOver(j)

RefreshFetchReturns(j, outcome) ==
    cycle_pc = "writing" /\ ~BatchPending /\ PlayerFetchReturns(j, outcome)

\* for player in final_players.iter().skip(players_written): the next insert
RefreshInsert(ok) ==
    /\ sched_kind = "player"
    /\ BatchPending
    /\ CycleInsert(DbMemberOf(players, final_players[writes + 1]), ok)

\* the stream is exhausted: database.swap_members_tables().await?
RefreshSwapBegin(ok) ==
    /\ sched_kind = "player"
    /\ SchedDone
    /\ ~BatchPending
    /\ SwapBegin(ok)

RefreshIdle == players = <<>>

\* the tables a cycle can find: as migrated, as a committed cycle left them,
\* and with rows a later failed cycle left in staging
TablesAtStart ==
    { MigratedTables,
      [members |-> [exists |-> TRUE,
                    rows |-> {[id |-> "realm1/alice", rio_all |-> 2500],
                              [id |-> "realm1/bob", rio_all |-> 0]}],
       members_tmp |-> EmptyTable,
       members_old |-> EmptyTable],
      [members |-> [exists |-> TRUE,
                    rows |-> {[id |-> "realm1/alice", rio_all |-> 0]}],
       members_tmp |-> [exists |-> TRUE,
                        rows |-> {[id |-> "realm1/bob", rio_all |-> 2500]}],
       members_old |-> EmptyTable] }

RefreshInit ==
    /\ players = <<>>
    /\ SchedIdle
    /\ db \in TablesAtStart
    /\ tx_open = FALSE
    /\ tx_pc = 0
    /\ tx_db = db
    /\ cycle_pc = "idle"
    /\ cycles = 0
    /\ writes = 0
    /\ written = <<>>
    /\ cycle_pre = {}
    /\ stale = NoStale
    /\ swap_pre = {}
    /\ swap_staged = {}
    /\ observed = NotRead

RefreshNext ==
    \/ \E ok \in BOOLEAN : RefreshStart(ok)
    \/ \E ps \in PlayerLists : RefreshRoster(ps)
    \/ \E j \in Jobs : RefreshDispatch(j)
    \/ \E j \in Jobs : RefreshDelayOver(j)
    \/ \E j \in Jobs, o \in ClientOutcomes : RefreshFetchReturns(j, o)
    \/ \E ok \in BOOLEAN : RefreshInsert(ok)
    \/ \E ok \in BOOLEAN : RefreshSwapBegin(ok)
    \/ \E ok \in BOOLEAN : SwapStatement(ok)
    \/ \E ok \in BOOLEAN : SwapCommit(ok)

\* the swap has been invoked in this cycle
SwapInvoked == cycle_pc \in {"swapping", "done", "swap_failed"}

\* job j ended with the service's data
Succeeded(j) ==
    \E k \in 1..Len(final_players) :
        final_players[k].job = j /\ final_players[k].cause = "Data"

\* no insert_temp_member call of the cycle failed
AllInsertsStored == writes = Len(written)

C16_AsStated ==
    /\ cycle_pc \in {"clear_failed", "swap_failed"} => db.members.rows = cycle_pre
    /\ ~AllInsertsStored =>
          /\ cycle_pc \notin {"swapping", "done"}
          /\ db.members.rows = cycle_pre

(***************************************************************************)
(* C17: when a refresh cycle collected no player at all (every roster      *)
(* failed, nothing was written to staging), generate_members_data does     *)
(* not invoke swap_members_tables, and the active table keeps the rows it  *)
(* had.  The code swaps the empty staging table in.                        *)
(***************************************************************************)
C17_AsStated ==
    (sched_kind = "player" /\ total_jobs = 0) =>
        /\ ~SwapInvoked
        /\ db.members.rows = cycle_pre

(***************************************************************************)
(* C19: when execute_request_with_retry gives up, the error it returns is  *)
(* the cause of the last failed attempt, whatever failed before: a         *)
(* rate-limit error after a 429, a server error with the status of the     *)
(* last 5xx answer, a network error when the last request was not sent.    *)
(***************************************************************************)
C19_LastCauseReturned ==
    (rq_pc = "done" /\ rq_result.tag = "Err") =>
        /\ sent = max_retries + 1
        /\ ~rq_last.sent_ok => rq_result = ErrResult("Http", 0)
        /\ (rq_last.sent_ok /\ rq_last.status = 429) =>
              rq_result = ErrResult("RateLimit", 0)
        /\ (rq_last.sent_ok /\ rq_last.status # 429) =>
              /\ is_server_error(rq_last.status)
              /\ rq_result = ErrResult("RaiderIo", rq_last.status)

\* retries exhausted on a 503 after network failures, 429 and 500 answers
C19_Witness ==
    /\ rq_pc = "done"
    /\ rq_result = ErrResult("RaiderIo", 503)
    /\ nNet > 0 /\ n429 > 0 /\ n5xx > 1

(***************************************************************************)
(* fetch_guild_data and fetch_player_data (raider_io.rs).  One call sends   *)
(* the profile request through execute_request_with_retry and handles what  *)
(* it returns; fetch_guild_data then looks up the boss-kill details         *)
(* (fetch_boss_kill_data, try_next_boss_kill_data), each with a request of  *)
(* its own.  The body of a successful answer is one of: a record that       *)
(* parses, a body that cannot be read, a body that does not parse, and the  *)
(* empty object "{}".                                                       *)
(***************************************************************************)
FetchKinds == {"guild", "player"}

Bodies == {"record", "unreadable", "unparseable", "empty_object"}

\* the profile types have required fields: "{}" does not parse as one
ProfileBodies == {"record", "unreadable", "unparseable"}

NoFetch == [tag |-> "", error |-> "", status |-> 0]

FetchSome == [tag |-> "Some", error |-> "", status |-> 0]

FetchNone == [tag |-> "None", error |-> "", status |-> 0]

FetchErr(e, st) == [tag |-> "Err", error |-> e, status |-> st]

\* what the profile stage decides: `files` counts the artifacts it writes
\* itself; tag "Parsed" lets fetch_guild_data go on to the boss-kill lookup
Decision(t, e, st, n) == [tag |-> t, error |-> e, status |-> st, files |-> n]

\* 404 is handled like every other non-success status
ProfileAnswerNotFoundIsError(kind, res, body) ==
    IF res.tag = "Err" THEN Decision("Err", res.error, res.status, 0)
    ELSE IF ~is_success(res.status) THEN Decision("Err", "RaiderIo", res.status, 1)
    ELSE IF body = "unreadable"
    THEN Decision("Err", IF kind = "guild" THEN "Http" ELSE "Application", 0, 0)
    ELSE IF body # "record" THEN Decision("Err", "Application", 0, 1)
    ELSE IF kind = "player" THEN Decision("Some", "", 0, 0)
    ELSE Decision("Parsed", "", 0, 0)

\* the code after `execute_request_with_retry(&url).await?` up to the parsed
\* profile, on the result res of the request and the body of a 2xx answer
ProfileAnswer(kind, res, body) ==
    IF res.tag = "Err" THEN Decision("Err", res.error, res.status, 0)
    ELSE IF res.status = 404 THEN Decision("None", "", 0, 0)
    ELSE IF ~is_success(res.status) THEN Decision("Err", "RaiderIo", res.status, 1)
    ELSE IF body = "unreadable"
    THEN Decision("Err", IF kind = "guild" THEN "Http" ELSE "Application", 0, 0)
    ELSE IF body # "record" THEN Decision("Err", "Application", 0, 1)
    ELSE IF kind = "player" THEN Decision("Some", "", 0, 0)
    ELSE Decision("Parsed", "", 0, 0)

\* save_error_details and the parse-error writers return silently when the
\* directory or the file cannot be written
Saved(n) == IF sink_ok THEN n ELSE 0

\* the body the profile stage reads: only a 2xx answer has its body read
BodyRead(res, body) ==
    IF res.tag = "Ok" /\ is_success(res.status) THEN body ELSE ""

ResultOf(d) ==
    IF d.tag = "Some" THEN FetchSome
    ELSE IF d.tag = "None" THEN FetchNone
    ELSE FetchErr(d.error, d.status)

\* a failed write of the artifact becomes the error of the fetch
SaveErrorPropagated(n, outcome) ==
    IF n > 0 /\ ~sink_ok THEN FetchErr("Io", 0) ELSE outcome

\* what the fetch returns after n artifacts were attempted on the way:
\* save_error_details returns (), and `if let Err(_) = fs::create_dir_all`,
\* `let _ = fs::write(..)` drop the error of the sink
AfterSave(n, outcome) == outcome

Stages == {"profile", "boss", "next_boss"}

\* a percent as a whole number of eighths of a percent: kills / 8 * 100 is
\* then the whole number kills * 100
Pct(p) == 8 * p

\* str::parse::<usize>() / parse::<u32>() on the part before the slash: an
\* optional '+' and at least one digit (the summaries are far from the
\* overflow of either type); -1 stands for Err
parse_kills(progress) ==
    LET s == BeforeSlash(progress)
        body == IF s # <<>> /\ Head(s) = "+" THEN Tail(s) ELSE s
    IN  IF body = <<>> THEN -1 ELSE ParseDigits(body, 0)

\* progress.split('/').next().and_then(|s| s.parse::<usize>().ok()).unwrap_or(0)
current_progress(progress) ==
    IF parse_kills(progress) < 0 THEN 0 ELSE parse_kills(progress)

\* str::contains
Contains(s, t) ==
    \E i \in 0..(Len(s) - Len(t)) : SubSeq(s, i + 1, i + Len(t)) = t

\* str::starts_with
StartsWith(s, t) == Len(s) >= Len(t) /\ SubSeq(s, 1, Len(t)) = t

\* the full clear is recognised by the text "8/8" alone
FullClearByText(progress) == Contains(progress, <<"8", "/", "8">>)

\* fetch_boss_kill_data: if current_progress >= 8 { return Ok((100.0, None)) }
FullClear(progress) == current_progress(progress) >= 8

\* the fallback of fetch_guild_data when fetch_boss_kill_data returns Err
Fallback(progress) ==
    IF Contains(progress, <<"8", "/", "8">>) THEN Pct(100)
    ELSE IF Contains(progress, <<"M">>)
    THEN IF parse_kills(progress) >= 0 THEN parse_kills(progress) * 100 ELSE Pct(75)
    ELSE IF Contains(progress, <<"H">>) THEN Pct(25)
    ELSE IF ~StartsWith(progress, <<"0", "/">>) /\ progress # NoProgress THEN Pct(10)
    ELSE Pct(0)

\* the summaries the guild profile can carry for the raid: "8/8 M", "3/8 M",
\* "8/8 H", "6/8 H", "1/8 N", "8/8 LFR", "No progress", "0/8 N", "9/10 M"
\* and " 3/8 M"
ProgressSummaries ==
    OtherSummaries \cup
    { CuttingEdge,
      NoProgress,
      <<"0", "/", "8", " ", "N">>,
      <<"9", "/", "1", "0", " ", "M">>,
      <<" ", "3", "/", "8", " ", "M">> }

\* attempt.bestPercent as the service reports it: a percentage
ReportedPercents == {Pct(p) : p \in BestPercents \cup {0, 100}}

KillOk(p) == [tag |-> "Ok", percent |-> p, files |-> 0]

KillErr(n) == [tag |-> "Err", percent |-> 0, files |-> n]

\* fetch_boss_kill_data after its request returned res; `reported` is what a
\* body that parses yields: attempt.best_percent.unwrap_or(100.0), 100 or 0
\* by kill.is_success, or 100 without kill data.  Tag "Next" goes on to
\* try_next_boss_kill_data
BossKillAnswer(res, body, reported) ==
    IF res.tag = "Err" THEN KillOk(Pct(0))
    ELSE IF res.status = 422 THEN KillOk(Pct(100))
    ELSE IF ~is_success(res.status) THEN KillOk(Pct(0))
    ELSE IF body = "unreadable" THEN KillErr(0)
    ELSE IF body = "empty_object" THEN [tag |-> "Next", percent |-> 0, files |-> 0]
    ELSE IF body = "unparseable" THEN KillErr(1)
    ELSE KillOk(reported)

\* try_next_boss_kill_data after its request returned res
NextBossKillAnswer(res, body, reported) ==
    IF res.tag = "Err" THEN KillOk(Pct(0))
    ELSE IF ~is_success(res.status) THEN KillOk(Pct(0))
    ELSE IF body = "unreadable" THEN KillErr(0)
    ELSE IF body = "empty_object" THEN KillOk(Pct(0))
    ELSE IF body = "unparseable" THEN KillErr(0)
    ELSE KillOk(reported)

\* let (best_percent, pull_count) = match self.fetch_boss_kill_data(..).await
\* { Ok((percent, count)) => .., Err(e) => fallback }
BestPercentOf(k, progress) ==
    IF k.tag = "Err" THEN Fallback(progress) ELSE k.percent

\* fetch_guild_data(..) / fetch_player_data(..) is called for `who`
FetchCall(kind, disk, who) ==
    /\ fetch_pc = "idle"
    /\ rq_pc = "idle"
    /\ fetch_kind' = kind
    /\ fetch_asked' = who
    /\ sink_ok' = disk
    /\ fetch_pc' = "profile"
    /\ UNCHANGED <<fetch_result, fetch_files, fetch_profile, fetch_body, fetch_identity,
                   fetch_progress, fetch_percent>>
    /\ UNCHANGED <<retryVars, schedVars, storeVars, sortVars, refreshVars, overlapVars,
                   batchVars, rosterVars>>

\* self.execute_request_with_retry(&url) of the current stage; the boss-kill
\* request is made only when the progress is no full clear
FetchRequestCall ==
    /\ fetch_pc \in Stages
    /\ fetch_pc = "boss" => ~FullClear(fetch_progress)
    /\ ExecuteRequestCall

FetchRequestSend(r) == fetch_pc \in Stages /\ ExecuteRequestSend(r)

FetchRequestWake == fetch_pc \in Stages /\ ExecuteRequestWake

\* the profile request returned.  A player record takes its name and realm
\* from the answer (PlayerName::from(player_response.name)), a guild record
\* from the request (guild_url.name.clone()); `answered` is the identity the
\* answer carries and `progress` the summary of the raid in a guild profile
FetchProfileAnswered(body, answered, progress) ==
    /\ fetch_pc = "profile"
    /\ rq_pc = "done"
    /\ LET d == ProfileAnswer(fetch_kind, rq_result, body)
       IN  /\ fetch_profile' = rq_result
           /\ fetch_body' = BodyRead(rq_result, body)
           /\ fetch_files' = fetch_files + Saved(rq_files + d.files)
           /\ fetch_identity' = IF d.tag = "Some" THEN answered
                                ELSE IF d.tag = "Parsed" THEN fetch_asked
                                ELSE ""
           /\ fetch_progress' = IF d.tag = "Parsed" THEN progress ELSE <<>>
           /\ IF d.tag = "Parsed"
              THEN /\ fetch_pc' = "boss"
                   /\ rq_pc' = "idle"
                   /\ UNCHANGED fetch_result
              ELSE /\ fetch_pc' = "done"
                   /\ fetch_result' = AfterSave(rq_files + d.files, ResultOf(d))
                   /\ UNCHANGED rq_pc
    /\ UNCHANGED <<fetch_kind, sink_ok, fetch_asked, fetch_percent>>
    /\ UNCHANGED <<attempt, sent, n429, n5xx, nNet, rq_result, last_error, rq_files,
                   rq_slept, rq_last>>
    /\ UNCHANGED <<schedVars, storeVars, sortVars, refreshVars, overlapVars, batchVars,
                   rosterVars>>

\* fetch_boss_kill_data returns without a request: the progress is a full
\* clear (current_progress >= 8)
FetchBossSkipped ==
    /\ fetch_pc = "boss"
    /\ rq_pc = "idle"
    /\ FullClear(fetch_progress)
    /\ fetch_pc' = "done"
    /\ fetch_result' = FetchSome
    /\ fetch_percent' = Pct(100)
    /\ UNCHANGED <<fetch_kind, fetch_files, fetch_profile, fetch_body, sink_ok,
                   fetch_asked, fetch_identity, fetch_progress>>
    /\ UNCHANGED <<retryVars, schedVars, storeVars, sortVars, refreshVars, overlapVars,
                   batchVars, rosterVars>>

\* the boss-kill request returned.  An exhausted request, a non-success
\* status and a body that cannot be read or parsed all end in a record, by
\* Ok((0.0, None)) or the fallback percent of fetch_guild_data; "{}" goes on
\* to try_next_boss_kill_data
FetchBossAnswered(body, reported) ==
    /\ fetch_pc = "boss"
    /\ rq_pc = "done"
    /\ LET k == BossKillAnswer(rq_result, body, reported)
       IN  IF k.tag = "Next"
           THEN /\ fetch_pc' = "next_boss"
                /\ rq_pc' = "idle"
                /\ UNCHANGED <<fetch_result, fetch_files, fetch_percent>>
           ELSE LET n == IF rq_result.tag = "Err" THEN rq_files ELSE k.files
                IN  /\ fetch_pc' = "done"
                    /\ fetch_result' = AfterSave(n, FetchSome)
                    /\ fetch_files' = fetch_files + Saved(n)
                    /\ fetch_percent' = BestPercentOf(k, fetch_progress)
                    /\ UNCHANGED rq_pc
    /\ UNCHANGED <<fetch_kind, fetch_profile, fetch_body, sink_ok, fetch_asked,
                   fetch_identity, fetch_progress>>
    /\ UNCHANGED <<attempt, sent, n429, n5xx, nNet, rq_result, last_error, rq_files,
                   rq_slept, rq_last>>
    /\ UNCHANGED <<schedVars, storeVars, sortVars, refreshVars, overlapVars, batchVars,
                   rosterVars>>

\* try_next_boss_kill_data returns without a request: it has no name for
\* the boss after the next one
FetchNextBossSkipped ==
    /\ fetch_pc = "next_boss"
    /\ rq_pc = "idle"
    /\ fetch_pc' = "done"
    /\ fetch_result' = FetchSome
    /\ fetch_percent' = Pct(0)
    /\ UNCHANGED <<fetch_kind, fetch_files, fetch_profile, fetch_body, sink_ok,
                   fetch_asked, fetch_identity, fetch_progress>>
    /\ UNCHANGED <<retryVars, schedVars, storeVars, sortVars, refreshVars, overlapVars,
                   batchVars, rosterVars>>

\* the request of try_next_boss_kill_data returned: every outcome ends in a
\* record, and a parse error is only logged
FetchNextBossAnswered(body, reported) ==
    /\ fetch_pc = "next_boss"
    /\ rq_pc = "done"
    /\ fetch_pc' = "done"
    /\ LET k == NextBossKillAnswer(rq_result, body, reported)
           n == IF rq_result.tag = "Err" THEN rq_files ELSE 0
       IN  /\ fetch_result' = AfterSave(n, FetchSome)
           /\ fetch_files' = fetch_files + Saved(n)
           /\ fetch_percent' = BestPercentOf(k, fetch_progress)
    /\ UNCHANGED <<fetch_kind, fetch_profile, fetch_body, sink_ok, fetch_asked,
                   fetch_identity, fetch_progress>>
    /\ UNCHANGED <<retryVars, schedVars, storeVars, sortVars, refreshVars, overlapVars,
                   batchVars, rosterVars>>

NoPercent == Pct(0) - 1

FetchIdle ==
    /\ fetch_kind = ""
    /\ fetch_pc = "idle"
    /\ fetch_result = NoFetch
    /\ fetch_files = 0
    /\ fetch_profile = NoResult
    /\ fetch_body = ""
    /\ sink_ok = TRUE
    /\ fetch_asked = ""
    /\ fetch_identity = ""
    /\ fetch_progress = <<>>
    /\ fetch_percent = NoPercent

FetchNext ==
    \/ \E kind \in FetchKinds, disk \in BOOLEAN, who \in Identities :
          FetchCall(kind, disk, who)
    \/ FetchRequestCall
    \/ \E r \in Responses : FetchRequestSend(r)
    \/ FetchRequestWake
    \/ \E body \in ProfileBodies, answered \in Identities, p \in ProgressSummaries :
          FetchProfileAnswered(body, answered, p)
    \/ FetchBossSkipped
    \/ \E body \in Bodies, reported \in ReportedPercents : FetchBossAnswered(body, reported)
    \/ FetchNextBossSkipped
    \/ \E body \in Bodies, reported \in ReportedPercents :
          FetchNextBossAnswered(body, reported)

(***************************************************************************)
(* C18: a 404 answer to a guild-profile or player-profile request ends the  *)
(* request on the attempt on which it arrives, and the fetch returns        *)
(* Ok(None): not an error, and with no artifact written.                    *)
(***************************************************************************)
C18_NotFoundIsAbsence ==
    /\ (fetch_pc = "profile" /\ rq_last = [sent_ok |-> TRUE, status |-> 404]) =>
          /\ rq_pc = "done"
          /\ rq_result = OkResponse(404)
          /\ rq_files = 0
    /\ (fetch_pc = "done" /\ fetch_profile = OkResponse(404)) =>
          /\ fetch_result = FetchNone
          /\ fetch_files = 0

\* a profile request answered 429, then 404, on a working sink
C18_Witness ==
    /\ fetch_pc = "done"
    /\ fetch_profile = OkResponse(404)
    /\ fetch_result = FetchNone
    /\ n429 > 0
    /\ sent = n429 + 1
    /\ sink_ok

(***************************************************************************)
(* C20, as stated: a fetch that returns an error has written a failure      *)
(* artifact, and a fetch that returns a record has written none.            *)
(***************************************************************************)
C20_AsStated ==
    fetch_pc = "done" =>
        /\ fetch_result.tag = "Err" => fetch_files >= 1
        /\ fetch_result.tag = "Some" => fetch_files = 0

(***************************************************************************)
(* C21, as stated: a player job that ends in a terminal fetch failure has   *)
(* had exactly one failure artifact written over its whole handling.        *)
(***************************************************************************)
FailureCauses == {"RateLimit", "Server", "Other"}

C21_AsStated ==
    \A i \in 1..Len(final_players) :
        final_players[i].cause \in FailureCauses =>
            job_files[final_players[i].job] = 1

(***************************************************************************)
(* C23, as stated: once the client has returned an error for a player job  *)
(* the scheduler resolves the job without calling the client again, and    *)
(* the requests sent for one job never exceed the client's attempt cap.    *)
(***************************************************************************)
C23_AsStated ==
    \A j \in Jobs :
        /\ attempts[j] >= 1 => job_pc[j] = "done"
        /\ job_requests[j] <= max_retries + 1

(***************************************************************************)
(* C24, as stated: no dispatched job waits before it sends its first       *)
(* request.                                                                *)
(***************************************************************************)
C24_AsStated ==
    \A j \in Jobs : job_pc[j] # "delay"

(***************************************************************************)
(* C25: every wait of execute_request_with_retry before a retry is the     *)
(* client's base delay, whatever the attempt number and whatever was       *)
(* retried (429, 5xx, network failure); one wait precedes each retry.      *)
(***************************************************************************)
C25_FixedDelay ==
    /\ \A i \in 1..Len(rq_slept) : rq_slept[i] = base_delay_ms
    /\ rq_pc \in {"send", "done"} => Len(rq_slept) = attempt
    /\ rq_pc = "sleep" => Len(rq_slept) = attempt + 1

\* a call that has waited after each of the three causes, up to its last retry
C25_Witness ==
    /\ Len(rq_slept) = max_retries
    /\ n429 > 0 /\ n5xx > 0 /\ nNet > 0

(***************************************************************************)
(* C22: what a fetch returns is decided by the answers of the service      *)
(* alone: it is the same record, not-found or error whether logs/errors    *)
(* can be written or not.                                                  *)
(***************************************************************************)
C22_SinkNeverDecides ==
    fetch_pc = "done" =>
        LET d == ProfileAnswer(fetch_kind, fetch_profile, fetch_body)
        IN  fetch_result = IF d.tag = "Parsed" THEN FetchSome ELSE ResultOf(d)

\* the sink failed while an artifact was being written, on a fetch that
\* returns its error and on a guild fetch that returns its record
C22_Witness ==
    /\ fetch_pc = "done"
    /\ ~sink_ok
    /\ rq_files > 0
    /\ fetch_files = 0
    /\ \/ fetch_result = FetchErr("RateLimit", 0)
       \/ fetch_kind = "guild" /\ fetch_result = FetchSome

(***************************************************************************)
(* C26: the staging table a cycle builds does not depend on the order in   *)
(* which the player jobs complete: while the cycle writes, staging holds   *)
(* for every record stored so far the row of that job's own identity with  *)
(* that job's own outcome, and nothing else, so that with all jobs stored   *)
(* it is the same set for every completion order.                          *)
(***************************************************************************)
StoredJobs == {final_players[i].job : i \in 1..writes}

C28_UpsertLastWins ==
    cycle_pc = "writing" =>
        /\ OnePerIdentity(db.members_tmp.rows)
        /\ db.members_tmp.rows = LastWrites(written)
        /\ \A i \in 1..Len(written) :
              (\A l \in (i + 1)..Len(written) : written[l].id # written[i].id)
                  => written[i] \in db.members_tmp.rows

\* one identity written twice with different scores: the second row stays
C28_Witness ==
    /\ cycle_pc = "writing"
    /\ Len(written) = 2
    /\ written[1].id = written[2].id
    /\ written[1].rio_all # written[2].rio_all
    /\ db.members_tmp.rows = {written[2]}

(***************************************************************************)
(* C29: clear_temp_members empties staging whatever it held and leaves the  *)
(* active and the backup table alone; applied to its own result it changes  *)
(* nothing.  A cycle that has just cleared starts on an empty staging       *)
(* table.                                                                   *)
(***************************************************************************)
C29_ClearIdempotent ==
    /\ LET once == clear_temp_members(db)
       IN  /\ once.members_tmp.rows = {}
           /\ once.members_tmp.exists = db.members_tmp.exists
           /\ once.members = db.members
           /\ once.members_old = db.members_old
           /\ clear_temp_members(once) = once
    /\ (cycle_pc = "writing" /\ writes = 0) =>
          /\ db.members_tmp = EmptyTable
          /\ db.members.rows = cycle_pre

\* the second cycle has cleared the rows the first left in staging when its
\* swap failed
C29_Witness ==
    /\ cycles = 2
    /\ cycle_pc = "writing"
    /\ writes = 0
    /\ swap_staged # {}
    /\ db.members.rows = {}
    /\ db.members_tmp = EmptyTable

(***************************************************************************)
(* C30: after a swap that committed, the backup table holds exactly the     *)
(* rows the active table held when the swap began (the backup of an         *)
(* earlier swap is gone), and staging exists and is empty, after the first  *)
(* swap and after every later one.                                          *)
(***************************************************************************)
C30_BackupIsPreviousActive ==
    cycle_pc = "done" =>
        /\ db.members_old = [exists |-> TRUE, rows |-> swap_pre]
        /\ db.members_tmp = EmptyTable
        /\ db.members = [exists |-> TRUE, rows |-> swap_staged]

\* a second committed swap: the backup is what the first swap promoted
C30_Witness ==
    /\ cycle_pc = "done"
    /\ cycles = 2
    /\ swap_pre # {}
    /\ swap_pre # swap_staged
    /\ db.members_old.rows = swap_pre

(***************************************************************************)
(* Two refresh cycles on one database.  `parse` is a command of the         *)
(* program (main.rs): each invocation is a process that opens the database  *)
(* file and runs generate_members_data; nothing in the program keeps a      *)
(* second invocation from starting while the first is running.  Each run    *)
(* clears staging, stores its records and swaps; the storage calls succeed  *)
(* here, and a swap is one transaction (its statements are taken together). *)
(***************************************************************************)
Runs == {"first", "second"}

RECURSIVE SwapFrom(_, _)
\* the tables after statements k.. of swap_members_tables, or the tables
\* as they were if one of them cannot execute (rollback)
SwapFrom(d, k) ==
    IF k > Len(SwapStatements) THEN [ok |-> TRUE, db |-> d]
    ELSE IF Executable(SwapStatements[k], d)
    THEN SwapFrom(Execute(SwapStatements[k], d), k + 1)
    ELSE [ok |-> FALSE, db |-> d]

swap_members_tables(d) ==
    IF SwapFrom(d, 1).ok THEN SwapFrom(d, 1).db ELSE Rollback(d, SwapFrom(d, 1).db)

overlapStoreUnchanged ==
    UNCHANGED <<tx_open, tx_pc, tx_db, cycle_pc, cycles, writes, written, cycle_pre, stale,
                swap_pre, swap_staged, observed>>

\* database.clear_temp_members().await? of run c
OverlapClear(c) ==
    /\ oc_pc[c] = "idle"
    /\ db' = clear_temp_members(db)
    /\ oc_pc' = [oc_pc EXCEPT ![c] = "writing"]
    /\ oc_written' = [oc_written EXCEPT ![c] = <<>>]
    /\ UNCHANGED oc_swapper
    /\ overlapStoreUnchanged
    /\ UNCHANGED <<retryVars, schedVars, sortVars, refreshVars, fetchVars, batchVars, rosterVars>>

\* database.insert_temp_member(&db_member) of run c
OverlapInsert(c, m) ==
    /\ oc_pc[c] = "writing"
    /\ Len(oc_written[c]) < MaxWrites
    /\ db' = insert_temp_member(db, m)
    /\ oc_written' = [oc_written EXCEPT ![c] = Append(@, m)]
    /\ UNCHANGED <<oc_pc, oc_swapper>>
    /\ overlapStoreUnchanged
    /\ UNCHANGED <<retryVars, schedVars, sortVars, refreshVars, fetchVars, batchVars, rosterVars>>

\* database.swap_members_tables().await? of run c
OverlapSwap(c) ==
    /\ oc_pc[c] = "writing"
    /\ db' = swap_members_tables(db)
    /\ oc_pc' = [oc_pc EXCEPT ![c] = "done"]
    /\ oc_swapper' = c
    /\ UNCHANGED oc_written
    /\ overlapStoreUnchanged
    /\ UNCHANGED <<retryVars, schedVars, sortVars, refreshVars, fetchVars, batchVars, rosterVars>>

OverlapIdle ==
    /\ oc_pc = [c \in Runs |-> "idle"]
    /\ oc_written = [c \in Runs |-> <<>>]
    /\ oc_swapper = ""

OverlapNext ==
    \/ \E c \in Runs : OverlapClear(c)
    \/ \E c \in Runs, m \in Members : OverlapInsert(c, m)
    \/ \E c \in Runs : OverlapSwap(c)

(***************************************************************************)
(* C27, as stated: staging belongs to one run.  While a run writes,         *)
(* staging holds exactly the records that run has stored, and after a swap  *)
(* the active table holds exactly the records of the run that swapped.      *)
(***************************************************************************)
C27_AsStated ==
    /\ \A c \in Runs :
          oc_pc[c] = "writing" => db.members_tmp.rows = LastWrites(oc_written[c])
    /\ oc_swapper # "" => db.members.rows = LastWrites(oc_written[oc_swapper])

(***************************************************************************)
(* C34: 429 answers, 5xx answers and network failures of one call of        *)
(* execute_request_with_retry draw on the one counter `attempt`: whatever   *)
(* their mix, the call sends at most max_retries + 1 requests, and it       *)
(* returns an error only when max_retries + 1 requests have failed.         *)
(***************************************************************************)
Failures == n429 + n5xx + nNet

C34_SharedAttemptCounter ==
    /\ sent <= max_retries + 1
    /\ rq_pc \in {"send", "sleep"} => Failures = sent
    /\ rq_pc = "send" => attempt = Failures
    /\ rq_pc = "sleep" => attempt + 1 = Failures
    /\ (rq_pc = "done" /\ rq_result.tag = "Err") => Failures = max_retries + 1
    /\ (rq_pc = "done" /\ rq_result.tag = "Ok") => Failures = sent - 1

\* an error after a mix in which no single cause reached the cap
C34_Witness ==
    /\ rq_pc = "done"
    /\ rq_result.tag = "Err"
    /\ n429 > 0 /\ n5xx > 0 /\ nNet > 0
    /\ n429 < max_retries /\ n5xx < max_retries /\ nNet < max_retries

(***************************************************************************)
(* C35: an answer of execute_request_with_retry whose status is neither     *)
(* 429 nor 5xx ends the call on the attempt on which it arrives: it is      *)
(* what the call returns, with its status, and no wait, no request and no   *)
(* artifact follows it.                                                     *)
(***************************************************************************)
EndsLoop(r) == r.sent_ok /\ r.status # 429 /\ ~(r.status \in 500..599)

C35_OtherStatusReturned ==
    EndsLoop(rq_last) =>
        /\ rq_pc = "done"
        /\ rq_result = OkResponse(rq_last.status)
        /\ sent = Len(rq_slept) + 1
        /\ sent = Failures + 1
        /\ rq_files = 0

\* a 422 returned after earlier attempts were retried
C35_Witness ==
    /\ rq_pc = "done"
    /\ rq_last = [sent_ok |-> TRUE, status |-> 422]
    /\ rq_result = OkResponse(422)
    /\ Len(rq_slept) >= 2

(***************************************************************************)
(* The consumer loop of generate_members_data by its counts: total_players, *)
(* final_players.len() and players_written, for runs long enough to reach   *)
(* the threshold of 100 several times.  The records are the indices         *)
(* 1..final_players.len(); a batch stores final_players[players_written..]. *)
(***************************************************************************)
\* the longest run explored
MaxPlayers == 250

\* while let Some(result) = results.next().await: final_players.push(player)
BatchPush ==
    /\ bt_pc = "poll"
    /\ bt_len < bt_total
    /\ bt_len' = bt_len + 1
    /\ bt_pc' = IF BatchDueAt(bt_len + 1, bt_total) THEN "write" ELSE "poll"
    /\ UNCHANGED <<bt_total, bt_written, bt_log>>
    /\ UNCHANGED <<retryVars, schedVars, storeVars, sortVars, refreshVars, fetchVars,
                   overlapVars, rosterVars>>

\* for player in final_players.iter().skip(players_written) { insert };
\* players_written = final_players.len()
BatchWrite ==
    /\ bt_pc = "write"
    /\ bt_log' = Append(bt_log, [first |-> bt_written + 1, last |-> bt_len])
    /\ bt_written' = bt_len
    /\ bt_pc' = "poll"
    /\ UNCHANGED <<bt_total, bt_len>>
    /\ UNCHANGED <<retryVars, schedVars, storeVars, sortVars, refreshVars, fetchVars,
                   overlapVars, rosterVars>>

\* results.next() returns None: every future has completed
BatchStreamEnds ==
    /\ bt_pc = "poll"
    /\ bt_len = bt_total
    /\ bt_pc' = "ended"
    /\ UNCHANGED <<bt_total, bt_len, bt_written, bt_log>>
    /\ UNCHANGED <<retryVars, schedVars, storeVars, sortVars, refreshVars, fetchVars,
                   overlapVars, rosterVars>>

BatchIdle ==
    /\ bt_pc = "poll"
    /\ bt_total = 0
    /\ bt_len = 0
    /\ bt_written = 0
    /\ bt_log = <<>>

BatchInit ==
    /\ bt_pc = "poll"
    /\ bt_total \in 0..MaxPlayers
    /\ bt_len = 0
    /\ bt_written = 0
    /\ bt_log = <<>>

BatchNext ==
    \/ BatchPush
    \/ BatchWrite
    \/ BatchStreamEnds

(***************************************************************************)
(* C31: every record taken off the stream is written in exactly one batch:  *)
(* the batches are consecutive ranges that start at the first record, each  *)
(* ends at a multiple of 100 or at the last record of the run, a batch is   *)
(* due exactly when the count reaches such a point, and when the stream     *)
(* ends nothing is left unwritten.                                          *)
(***************************************************************************)
C31_BatchesCoverEachRecordOnce ==
    /\ bt_written <= bt_len
    /\ bt_log # <<>> => bt_log[1].first = 1 /\ bt_log[Len(bt_log)].last = bt_written
    /\ bt_log = <<>> => bt_written = 0
    /\ \A k \in 1..Len(bt_log) :
          /\ bt_log[k].first <= bt_log[k].last
          /\ bt_log[k].last % 100 = 0 \/ bt_log[k].last = bt_total
          /\ k < Len(bt_log) => bt_log[k + 1].first = bt_log[k].last + 1
    /\ bt_pc = "poll" =>
          /\ bt_len - bt_written < 100
          /\ bt_written = bt_len - (bt_len % 100) \/ bt_written = bt_total
    /\ bt_pc = "ended" => bt_written = bt_total /\ bt_len = bt_total

\* a run whose last batch is a partial one after two full ones
C31_Witness ==
    /\ bt_pc = "ended"
    /\ Len(bt_log) = 3
    /\ bt_log[2] = [first |-> 101, last |-> 200]
    /\ bt_log[3].last > 200

(***************************************************************************)
(* C36: after a cycle's swap has committed, every row of the active table   *)
(* is a record this cycle stored; rows that an earlier cycle, aborted       *)
(* before its swap, left in staging are not among them unless this cycle    *)
(* stored the same record again.                                            *)
(***************************************************************************)
C36_NoStaleRowsAfterSwap ==
    cycle_pc = "done" =>
        \A row \in db.members.rows : \E k \in 1..Len(written) : written[k] = row

\* the cycle before was aborted with a row in staging that this cycle did not
\* store, and this cycle's swap committed
C36_Witness ==
    /\ cycle_pc = "done"
    /\ stale.how = "aborted"
    /\ \E row \in stale.rows : \A k \in 1..Len(written) : written[k] # row
    /\ written # <<>>

(***************************************************************************)
(* C32: the storage operations of a cycle occur in the order clear, writes, *)
(* swap.  clear_temp_members is called once, when nothing has been stored;  *)
(* every insert_temp_member follows it; swap_members_tables is invoked only *)
(* when every record of the stream has been handed to insert_temp_member,   *)
(* and after that no insert, no clear and no second swap follows.           *)
(***************************************************************************)
ClearCalled == cycles' # cycles

InsertCalled == writes' # writes

SwapCalled == cycle_pc = "writing" /\ cycle_pc' \in {"swapping", "swap_failed"}

C32_ClearWritesSwap ==
    [][/\ ClearCalled => cycle_pc = "idle" /\ cycles = 0 /\ writes = 0 /\ writes' = 0
       /\ InsertCalled => cycles = 1 /\ cycle_pc = "writing" /\ ~ClearCalled
       /\ SwapCalled => /\ cycles = 1
                        /\ writes = total_jobs
                        /\ Len(final_players) = total_jobs
                        /\ ~InsertCalled
       /\ SwapInvoked => ~ClearCalled /\ ~InsertCalled /\ ~SwapCalled /\ SwapInvoked'
      ]_vars

\* a cycle that stored two records and whose swap committed
C32_Witness == cycle_pc = "done" /\ cycles = 1 /\ writes = 2 /\ total_jobs = 2

(***************************************************************************)
(* C33: when every request is eventually answered, a refresh cycle ends     *)
(* whatever the service answers: no job calls the client more than          *)
(* max_attempts times or sends more than max_attempts * (max_retries + 1)   *)
(* requests, the swap is invoked only when every job has resolved, and the  *)
(* cycle eventually stays committed or stays ended with an error.           *)
(***************************************************************************)
CycleEnded == cycle_pc \in {"done", "clear_failed", "swap_failed"}

C33_CycleTerminates ==
    /\ [](\A j \in Jobs :
             /\ attempts[j] <= max_attempts
             /\ job_requests[j] <= max_attempts * (max_retries + 1))
    /\ [](SwapInvoked => \A j \in 1..total_jobs : job_pc[j] = "done")
    /\ <>[]CycleEnded

\* a committed cycle in which a job used every attempt and every request
C33_Witness ==
    /\ cycle_pc = "done"
    /\ \E j \in 1..total_jobs :
          /\ attempts[j] = max_attempts
          /\ job_requests[j] = max_attempts * (max_retries + 1)

(***************************************************************************)
(* The roster loop of generate_members_data: each guild's roster is read    *)
(* in the order of guild_urls and its members are put into data_dict under  *)
(* the key (realm, name); the fetch jobs are the keys of data_dict.  A      *)
(* guild is named by its place in guild_urls.                               *)
(***************************************************************************)
MaxRosters == 2

\* a member without a name, or with the default name, is not entered
Nameless == "realm1/Unknown"

RosterEntries == Identities \cup {Nameless}

RosterMembers == UNION {[1..n -> RosterEntries] : n \in 0..MaxRosters}

\* fetch_guild_members: Ok(members) or Err
RosterAnswers == [ok : BOOLEAN, members : RosterMembers]

EmptyDict == [id \in {} |-> 0]

\* data_dict.entry(key).or_insert(value): the first value of a key is kept
insert_if_absent(dict, key, guild) ==
    [k \in DOMAIN dict \cup {key} |-> IF k \in DOMAIN dict THEN dict[k] ELSE guild]

\* data_dict.insert(key, value): the value of an existing key is replaced
insert(dict, key, guild) ==
    [k \in DOMAIN dict \cup {key} |-> IF k = key THEN guild ELSE dict[k]]

\* for member in members { if !name.is_empty() && name != "Unknown" { insert } }
RECURSIVE InsertMembers(_, _, _)
InsertMembers(dict, members, guild) ==
    IF members = <<>>
    THEN dict
    ELSE InsertMembers(IF Head(members) # Nameless
                       THEN insert(dict, Head(members), guild)
                       ELSE dict,
                       Tail(members), guild)

\* data_dict.keys().cloned().collect(): every key once, in the map's order
KeyLists(dict) ==
    {ps \in [1..Cardinality(DOMAIN dict) -> DOMAIN dict] :
        \A i, j \in DOMAIN ps : i # j => ps[i] # ps[j]}

\* if let Ok(guild_data) = fetch_guild_members(..): a roster that cannot be
\* read is passed over
RosterFetched ==
    /\ roster_jobs = <<>>
    /\ roster_i < Len(rosters)
    /\ roster_i' = roster_i + 1
    /\ data_dict' = IF rosters[roster_i + 1].ok
                    THEN InsertMembers(data_dict, rosters[roster_i + 1].members,
                                       roster_i + 1)
                    ELSE data_dict
    /\ UNCHANGED <<rosters, roster_jobs>>
    /\ UNCHANGED <<retryVars, schedVars, storeVars, sortVars, refreshVars, fetchVars,
                   overlapVars, batchVars>>

\* the stream of fetch jobs: one per key, with the guild data_dict holds for it
RosterJobsBuilt(ps) ==
    /\ roster_jobs = <<>>
    /\ roster_i = Len(rosters)
    /\ ps # <<>>
    /\ roster_jobs' = [i \in DOMAIN ps |-> [id |-> ps[i], guild |-> data_dict[ps[i]]]]
    /\ UNCHANGED <<rosters, roster_i, data_dict>>
    /\ UNCHANGED <<retryVars, schedVars, storeVars, sortVars, refreshVars, fetchVars,
                   overlapVars, batchVars>>

RosterIdle ==
    /\ rosters = <<>>
    /\ roster_i = 0
    /\ data_dict = EmptyDict
    /\ roster_jobs = <<>>

RosterInit ==
    /\ \E n \in 0..MaxRosters : rosters \in [1..n -> RosterAnswers]
    /\ roster_i = 0
    /\ data_dict = EmptyDict
    /\ roster_jobs = <<>>

RosterNext ==
    \/ RosterFetched
    \/ \E ps \in KeyLists(data_dict) : RosterJobsBuilt(ps)

\* the guilds whose roster was read and lists the identity
Listing(id) ==
    {k \in 1..Len(rosters) :
        rosters[k].ok /\ \E i \in DOMAIN rosters[k].members : rosters[k].members[i] = id}

LastListing(id) == CHOOSE k \in Listing(id) : \A l \in Listing(id) : l <= k

(***************************************************************************)
(* C39: an identity that one or several rosters list yields exactly one     *)
(* fetch job, and the job carries the guild of the last roster processed    *)
(* that lists it; an identity no roster lists yields none.                  *)
(***************************************************************************)
C39_OneJobLastGuild ==
    roster_jobs # <<>> =>
        \A id \in RosterEntries :
            LET jobs_of == {i \in DOMAIN roster_jobs : roster_jobs[i].id = id}
            IN  IF id # Nameless /\ Listing(id) # {}
                THEN /\ Cardinality(jobs_of) = 1
                     /\ \A i \in jobs_of : roster_jobs[i].guild = LastListing(id)
                ELSE jobs_of = {}

\* an identity listed by both rosters, the first of which lists it twice
C39_Witness ==
    /\ roster_jobs # <<>>
    /\ Len(rosters) = 2
    /\ Listing("realm1/alice") = {1, 2}
    /\ rosters[1].members = <<"realm1/alice", "realm1/alice">>
    /\ \E i \in DOMAIN roster_jobs : roster_jobs[i] = [id |-> "realm1/alice", guild |-> 2]

(***************************************************************************)
(* C37: once the guild profile has been fetched and parsed, whatever the    *)
(* boss-kill lookup meets (retries exhausted, a non-success status, a body  *)
(* that cannot be read or parsed, an empty object), fetch_guild_data        *)
(* returns a guild record, never an error, and the best percent of the      *)
(* record lies between 0 and 100.                                           *)
(***************************************************************************)
ProfileParsed == fetch_kind = "guild" /\ fetch_progress # <<>>

C38_AsStated ==
    (fetch_pc = "done" /\ fetch_kind = "player" /\ fetch_result.tag = "Some") =>
        fetch_identity = fetch_asked

(***************************************************************************)
(* Specifications                                                          *)
(***************************************************************************)
RetryInit == RetryIdle /\ SchedIdle /\ StoreIdle /\ SortIdle /\ RefreshIdle /\ FetchIdle
             /\ OverlapIdle /\ BatchIdle /\ RosterIdle

SpecRetry == RetryInit /\ [][RetryNext]_vars

SchedRunInit == SchedInit /\ RetryIdle /\ StoreIdle /\ SortIdle /\ RefreshIdle /\ FetchIdle
             /\ OverlapIdle /\ BatchIdle /\ RosterIdle

SpecSched == SchedRunInit /\ [][SchedNext]_vars

StoreInit == StoreIdle /\ RetryIdle /\ SchedIdle /\ SortIdle /\ RefreshIdle /\ FetchIdle
             /\ OverlapIdle /\ BatchIdle /\ RosterIdle

SpecStore == StoreInit /\ [][StoreNext]_vars

SortRunInit == SortInit /\ RetryIdle /\ SchedIdle /\ StoreIdle /\ RefreshIdle /\ FetchIdle
             /\ OverlapIdle /\ BatchIdle /\ RosterIdle

SpecSort == SortRunInit /\ [][SortNext]_vars

RefreshRunInit ==
    RefreshInit /\ RetryIdle /\ SortIdle /\ FetchIdle /\ OverlapIdle /\ BatchIdle /\ RosterIdle

SpecRefresh == RefreshRunInit /\ [][RefreshNext]_vars

\* the runtime keeps polling the stream and every call of the client and of
\* the database returns
SpecRefreshFair == SpecRefresh /\ WF_vars(RefreshNext)

FetchRunInit == FetchIdle /\ RetryIdle /\ SchedIdle /\ StoreIdle /\ SortIdle /\ RefreshIdle
                /\ OverlapIdle /\ BatchIdle /\ RosterIdle

SpecFetch == FetchRunInit /\ [][FetchNext]_vars

OverlapInit ==
    /\ OverlapIdle
    /\ RetryIdle /\ SchedIdle /\ SortIdle /\ RefreshIdle /\ FetchIdle /\ BatchIdle
    /\ RosterIdle
    /\ db \in TablesAtStart
    /\ tx_open = FALSE
    /\ tx_pc = 0
    /\ tx_db = db
    /\ cycle_pc = "idle"
    /\ cycles = 0
    /\ writes = 0
    /\ written = <<>>
    /\ cycle_pre = {}
    /\ stale = NoStale
    /\ swap_pre = {}
    /\ swap_staged = {}
    /\ observed = NotRead

SpecOverlap == OverlapInit /\ [][OverlapNext]_vars

BatchRunInit ==
    /\ BatchInit
    /\ RetryIdle /\ SchedIdle /\ StoreIdle /\ SortIdle /\ RefreshIdle /\ FetchIdle
    /\ OverlapIdle /\ RosterIdle

SpecBatch == BatchRunInit /\ [][BatchNext]_vars

RosterRunInit ==
    /\ RosterInit
    /\ RetryIdle /\ SchedIdle /\ StoreIdle /\ SortIdle /\ RefreshIdle /\ FetchIdle
    /\ OverlapIdle /\ BatchIdle

SpecRoster == RosterRunInit /\ [][RosterNext]_vars

====
